---- MODULE Spec2Model ----
(***************************************************************************)
(* Play-by-play football simulation: the play loop of                      *)
(* simulation/engine.py (simulate_game, simulate_play,                     *)
(* process_play_result, with data/nfl_data_provider.py as the source of    *)
(* play types and yardage) and the Game / GameClock / GameState classes of *)
(* models/game.py.                                                         *)
(*                                                                         *)
(* engine.py writes simulate_game at module level, with the methods that   *)
(* follow it indented under it; they are read here as the methods of       *)
(* SimulationEngine their bodies are written to be.  The two teams of a    *)
(* game have different ids.                                                *)
(*                                                                         *)
(* Random draws are nondeterministic choices over every value the draw can *)
(* produce.  Probabilities are kept in hundredths (0.75 is 75).            *)
(***************************************************************************)
EXTENDS Integers, Sequences, FiniteSets, TLC

(***************************************************************************)
(* Bounds of the exploration.                                              *)
(***************************************************************************)
\* the short games of Spec have 1 .. MaxQuarters quarters of one minute
MaxQuarters == 3
\* the Games of SpecGame have quarters of 1 .. MaxGameQuarterLength minutes
MaxGameQuarterLength == 1
\* a Game of SpecGame scores no touchdown that would take a side past this
MaxGameScore == 14
\* simulate_multiple_games is called with num_games in 1 .. MaxGames
MaxGames == 2
\* simulate_season is called with schedules of 0 .. MaxSchedule games
MaxSchedule == 2
\* a Player of SpecPlayer has its game stats saved up to MaxSaves times
MaxSaves == 2
\* the games of SpecRoster have MaxRosterPlays plays between them
MaxRosterPlays == 4
\* the GameClocks of SpecClock have quarters of 1 .. MaxClockQuarterLength
\* minutes, or the 15 minutes of the default
MaxClockQuarterLength == 2
\* the yards a GameState followed on its own is let fall behind its own 20,
\* and the plays added to its history
MaxYardsLost == 4
MaxHistory == 1
\* the plays of a game in which the players' statistics are followed
MaxStatsPlays == 5

(***************************************************************************)
(* Helpers.                                                                *)
(***************************************************************************)
Min(a, b) == IF a < b THEN a ELSE b
Max(a, b) == IF a > b THEN a ELSE b

\* The truth values "random.random() < num / den" can take: random.random()
\* ranges over [0, 1), so TRUE needs num > 0 and FALSE needs num < den.
RandomBelow(num, den) ==
    {b \in BOOLEAN : IF b THEN num > 0 ELSE num < den}

(***************************************************************************)
(* The two teams of one game (SimulationEngine.default_teams).             *)
(***************************************************************************)
home_team == "NE"
away_team == "KC"

(***************************************************************************)
(* data/nfl_data_provider.py                                               *)
(***************************************************************************)
\* get_yards_gained, fallback distribution of a pass (every weight > 0)
FallbackPassYards == {-5, -2, 0, 3, 7, 12, 20, 35}
\* get_yards_gained, fallback distribution of a run (every weight > 0)
FallbackRunYards == {-3, -1, 0, 1, 2, 3, 4, 8, 15, 25}

\* NFLDataProvider after a load_data that found no file: nothing loaded
ProviderNotLoaded == [loaded |-> FALSE, pass |-> {}, run |-> {}]
\* NFLDataProvider after load_data read a play_outcomes.json whose
\* yards_distribution is {"0": n} for both play types
ProviderFlat == [loaded |-> TRUE, pass |-> {0}, run |-> {0}]

\* get_play_type: pass_pct when play_tendencies.json has no entry for the down
DefaultPassPct == 50

\* get_play_type(down, distance): the play types random.random()*100 < pass_pct
\* can give
get_play_type(down, distance) ==
    { IF is_pass THEN "pass" ELSE "run" : is_pass \in RandomBelow(DefaultPassPct, 100) }

\* get_yards_gained(play_type): the values random.choices can return
get_yards_gained(provider, play_type) ==
    LET dist == IF play_type = "pass" THEN provider.pass ELSE provider.run
    IN  IF dist # {} THEN dist
        ELSE IF play_type = "pass" THEN FallbackPassYards
        ELSE FallbackRunYards

(***************************************************************************)
(* State.                                                                  *)
(*   parameters    SimulationEngine.parameters of the run                  *)
(*   data_provider SimulationEngine.data_provider                          *)
(*   game          the fields simulate_game sets on its Game object        *)
(*   play_count    simulate_game's local play_count (total_plays)          *)
(*   plays_recorded  len(play_history), simulate_game's local list of the  *)
(*                 play results                                            *)
(*   player_stats_kept  simulate_game's local player_stats, where the      *)
(*                 players' statistics are followed play by play           *)
(*   play_result   the dict of the last play, as process_play_result saw   *)
(*                 it; offense and yards_drawn are not keys of the dict:   *)
(*                 they record the team that ran the play and the value    *)
(*                 get_yards_gained returned                               *)
(*   pc            "loop" while simulate_game's while loop runs, "done"    *)
(*                 once it has exited                                      *)
(* and of a Game of models/game.py:                                        *)
(*   teams         per side, what simulate_play reads of the Team: whether *)
(*                 the depth chart has a starting QB and RB, and           *)
(*                 attributes.pass_tendency in hundredths                  *)
(*   clock         Game.clock, a GameClock                                 *)
(*   state         Game.state, a GameState (without timeouts and history)  *)
(*   result        the dict the last Game.simulate_play returned           *)
(*   gpc           "new" after construction, "loop" while                  *)
(*                 Game.simulate_game's loop runs, "done" once it exited   *)
(* and of a call of simulate_game, simulate_multiple_games or              *)
(* simulate_season on the engine:                                          *)
(*   call          the call: its name, its arguments, and whether it is    *)
(*                 running, has raised (and which error) or has returned   *)
(*   team_objects  the Team objects the caller holds, by id: of            *)
(*                 Team.stats a per-game field (total_yards) and a kept    *)
(*                 one (wins), and a live stat of a roster player          *)
(*   all_results   simulate_multiple_games' all_results, simulate_season's *)
(*                 game_results                                            *)
(*   all_player_stats  simulate_multiple_games' all_player_stats           *)
(*   standings     simulate_season's standings dict                        *)
(*   returned      the value the call returned                             *)
(* and of the Player and Team objects of models/player.py and              *)
(* models/team.py, where the players' statistics are followed:             *)
(*   player_objects  the Player objects, by id: team, position, the live   *)
(*                 stats (a PlayerStats), historical_stats and             *)
(*                 fantasy_points_history                                  *)
(*   rosters       per Team id, Team.roster (the ids of the Player objects *)
(*                 it holds) and Team.depth_chart                          *)
(*   team_stats    per Team id, Team.stats (a TeamStats)                   *)
(*   game_summary  the dict the last Game.simulate_game returned           *)
(*   games_completed  per Team id, the number of Game.simulate_game calls  *)
(*                 that returned with the Team on either side              *)
(*   plays_made    the number of Game.simulate_play calls made so far      *)
(***************************************************************************)
VARIABLES parameters, data_provider, game, play_count, plays_recorded,
          player_stats_kept, play_result, pc,
          teams, clock, state, result, gpc,
          call, team_objects, all_results, all_player_stats, standings, returned,
          player_objects, rosters, team_stats, game_summary,
          games_completed, plays_made

evars == <<parameters, data_provider, game, play_count, plays_recorded,
           player_stats_kept, play_result, pc>>
gvars == <<teams, clock, state, result, gpc>>
avars == <<call, team_objects, all_results, all_player_stats, standings, returned>>
ovars == <<player_objects, rosters, team_stats, game_summary,
           games_completed, plays_made>>
vars == <<parameters, data_provider, game, play_count, plays_recorded,
          player_stats_kept, play_result, pc,
          teams, clock, state, result, gpc,
          call, team_objects, all_results, all_player_stats, standings, returned,
          player_objects, rosters, team_stats, game_summary,
          games_completed, plays_made>>

(***************************************************************************)
(* models/game.py: GameClock                                               *)
(***************************************************************************)
\* GameClock(minutes = quarter_length, quarter_length = quarter_length)
NewGameClock(quarter_length) ==
    [ quarter |-> 1, minutes |-> quarter_length, seconds |-> 0,
      is_running |-> FALSE, quarter_length |-> quarter_length ]

\* GameClock(): the dataclass defaults, 15-minute quarters
DefaultGameClock == NewGameClock(15)

advance_without_carry(c, seconds_elapsed) ==
    IF ~c.is_running THEN c
    ELSE LET total_seconds == c.minutes * 60 + c.seconds - seconds_elapsed
         IN  IF total_seconds <= 0
             THEN IF c.quarter + 1 <= 4
                  THEN [c EXCEPT !.quarter = @ + 1, !.minutes = c.quarter_length,
                                 !.seconds = 0]
                  ELSE [c EXCEPT !.quarter = @ + 1, !.minutes = 0, !.seconds = 0,
                                 !.is_running = FALSE]
             ELSE [c EXCEPT !.minutes = total_seconds \div 60,
                            !.seconds = total_seconds % 60]

advance_keeps_running(c, seconds_elapsed) ==
    [advance_without_carry(c, seconds_elapsed) EXCEPT !.is_running = c.is_running]

RECURSIVE advance(_, _)
\* GameClock.advance(seconds_elapsed)
advance(c, seconds_elapsed) ==
    IF ~c.is_running THEN c
    ELSE LET total_seconds == c.minutes * 60 + c.seconds - seconds_elapsed
         IN  IF total_seconds <= 0
             THEN LET remaining_seconds == 0 - total_seconds
                      rolled == [c EXCEPT !.quarter = @ + 1]
                  IN  IF rolled.quarter <= 4
                      THEN LET fresh == [rolled EXCEPT !.minutes = c.quarter_length,
                                                       !.seconds = 0]
                           IN  IF remaining_seconds > 0
                               THEN advance(fresh, remaining_seconds)
                               ELSE fresh
                      ELSE [rolled EXCEPT !.minutes = 0, !.seconds = 0,
                                          !.is_running = FALSE]
             ELSE [c EXCEPT !.minutes = total_seconds \div 60,
                            !.seconds = total_seconds % 60]

\* GameClock.start
start(c) == [c EXCEPT !.is_running = TRUE]

\* GameClock.reset_for_quarter
reset_for_quarter(c) == [c EXCEPT !.minutes = c.quarter_length, !.seconds = 0]

\* GameClock.is_game_over
is_game_over(c) == c.quarter > 4

\* GameClock.time_remaining
time_remaining(c) ==
    LET quarters_left == 4 - c.quarter + 1
    IN  (quarters_left - 1) * c.quarter_length * 60 + c.minutes * 60 + c.seconds

(***************************************************************************)
(* models/game.py: GameState                                               *)
(***************************************************************************)
\* GameState() as Game.__post_init__ leaves it: possession = home_team.id
NewGameState(home_id) ==
    [ home_score |-> 0, away_score |-> 0, possession |-> home_id,
      down |-> 1, distance |-> 10, field_position |-> 20, is_redzone |-> FALSE ]

\* GameState.update_field_position
update_field_position(st, yards_gained) ==
    LET moved == st.field_position + yards_gained
        capped == IF moved > 100 THEN 100 ELSE moved
    IN  [st EXCEPT !.field_position = capped, !.is_redzone = (capped >= 80)]

\* GameState.update_down_and_distance
update_down_and_distance(st, yards_gained) ==
    IF yards_gained >= st.distance
    THEN [st EXCEPT !.down = 1,
                    !.distance = IF st.field_position > 90
                                 THEN 100 - st.field_position ELSE 10]
    ELSE LET left == st.distance - yards_gained
         IN  [st EXCEPT !.down = @ + 1,
                        !.distance = IF left > 10 /\ st.field_position < 90
                                     THEN 10 ELSE left]

change_possession_keeps_spot(st) ==
    [st EXCEPT !.field_position = 100 - st.field_position,
               !.down = 1,
               !.distance = 10,
               !.possession = IF st.possession = "home" THEN "away" ELSE "home"]

\* GameState.change_possession
change_possession(st) ==
    LET flipped == 100 - st.field_position
    IN  [st EXCEPT !.field_position = IF flipped < 20 THEN 20 ELSE flipped,
                   !.down = 1,
                   !.distance = 10,
                   !.possession = IF st.possession = "home" THEN "away" ELSE "home"]

(***************************************************************************)
(* models/game.py: Game                                                    *)
(***************************************************************************)
\* what Game.simulate_play reads of a Team
NewTeam(id, has_qb, has_rb, pass_tendency) ==
    [id |-> id, qb |-> has_qb, rb |-> has_rb, pass_tendency |-> pass_tendency]

\* TeamAttributes.pass_tendency by default, 0.55, in hundredths
DefaultPassTendency == 55

\* a team with a starter at every position and the default tendencies
DefaultTeam(id) == NewTeam(id, TRUE, TRUE, DefaultPassTendency)

\* Game.get_possession_team: the side ("home" or "away") it returns
get_possession_team(tm, st) ==
    IF st.possession = tm.home.id THEN "home" ELSE "away"

\* Game.get_defense_team: the side it returns
get_defense_team(tm, st) ==
    IF st.possession = tm.home.id THEN "away" ELSE "home"

\* the truth values "random.random() > num / den" can take
RandomAbove(num, den) ==
    {b \in BOOLEAN : IF b THEN num < den ELSE num >= 0}

\* "time_elapsed = 30  # Average play time in seconds"
time_elapsed == 30
LongPassLine == 75
LongPassCap == 25
LongPassPct == 8
LongRunLine == 80
LongRunCap == 20
LongRunPct == 10

\* yards a completed pass can gain: samples of max(0, int(normalvariate ...))
PassYardsTried == {0, 6, 30}
\* yards a run can gain: samples of max(-2, int(normalvariate ...))
RunYardsTried == {-2, 3, 30}

NoResult ==
    [ play_type |-> "none", result |-> "none", yards_gained |-> 0,
      is_touchdown |-> FALSE, is_interception |-> FALSE, is_fumble |-> FALSE,
      td_credited |-> FALSE ]

\* "Make long touchdowns more rare": the <<yards_gained, is_touchdown>> pairs
\* left after the check, for a gain drawn at field_position
LongTouchdownCheck(field_position, yards_gained, line, cap, pct) ==
    IF field_position + yards_gained >= 100 /\ field_position < line
    THEN { IF capped THEN <<Min(yards_gained, cap), FALSE>> ELSE <<yards_gained, TRUE>>
           : capped \in RandomAbove(pct, 100) }
    ELSE { <<yards_gained, field_position + yards_gained >= 100>> }

\* a completed pass: the dict never gets "is_touchdown"; td_credited records
\* that passing_tds and receiving_tds were credited
CompletePassResults(st) ==
    UNION { { [ NoResult EXCEPT !.play_type = "pass", !.result = "complete",
                                !.yards_gained = yt[1], !.td_credited = yt[2] ]
              : yt \in LongTouchdownCheck(st.field_position, y,
                                          LongPassLine, LongPassCap, LongPassPct) }
            : y \in PassYardsTried }

\* an incomplete pass, intercepted or not
IncompletePassResults ==
    { [ NoResult EXCEPT !.play_type = "pass",
                        !.result = IF intercepted THEN "interception" ELSE "incomplete",
                        !.is_interception = intercepted ]
      : intercepted \in BOOLEAN }

\* a run by the starting RB, fumbled or not
RunResults(st) ==
    UNION { UNION { { [ NoResult EXCEPT !.play_type = "run",
                                        !.result = IF fumbled THEN "fumble" ELSE "run",
                                        !.yards_gained = yt[1],
                                        !.is_touchdown = yt[2],
                                        !.td_credited = yt[2],
                                        !.is_fumble = fumbled ]
                      : fumbled \in BOOLEAN }
                    : yt \in LongTouchdownCheck(st.field_position, y,
                                                LongRunLine, LongRunCap, LongRunPct) }
            : y \in RunYardsTried }

\* Game.simulate_play, up to the clock management: the dicts it can build
PlayResults(offense, st) ==
    UNION { IF is_pass
            THEN IF offense.qb
                 THEN CompletePassResults(st) \cup IncompletePassResults
                 ELSE { [NoResult EXCEPT !.play_type = "pass", !.result = "incomplete"] }
            ELSE IF offense.rb
                 THEN RunResults(st)
                 ELSE { [NoResult EXCEPT !.play_type = "run", !.result = "run"] }
            : is_pass \in RandomBelow(offense.pass_tendency, 100) }

\* "Clock management": the clock runs unless the play is a touchdown, an
\* interception, a fumble or an incomplete pass
ClockRuns(r) ==
    ~(r.is_touchdown \/ r.is_interception \/ r.is_fumble \/ r.result = "incomplete")

\* "Update game state"
UpdateGameState(tm, st, r) ==
    IF r.is_interception \/ r.is_fumble
    THEN change_possession(st)
    ELSE LET moved == update_down_and_distance(
                          update_field_position(st, r.yards_gained), r.yards_gained)
         IN  IF r.is_touchdown
             THEN change_possession(
                      IF moved.possession = tm.home.id
                      THEN [moved EXCEPT !.home_score = @ + 7]
                      ELSE [moved EXCEPT !.away_score = @ + 7])
             ELSE IF moved.down > 4 THEN change_possession(moved)
             ELSE moved

\* Game.simulate_game, "Check for end of quarter" after each play
EndOfQuarterCheck(c) ==
    IF c.seconds = 0 /\ c.minutes = 0 /\ c.quarter < 4
    THEN reset_for_quarter([c EXCEPT !.quarter = @ + 1])
    ELSE c

(***************************************************************************)
(* simulation/engine.py: constants of the play loop.                       *)
(***************************************************************************)
max_plays == 150
TouchdownPoints == 7
FieldGoalPoints == 3
KickoffFieldPosition == 25
first_down_distance == 10
FieldGoalRange == 60
MinPunt == 35
MaxPunt == 50
InterceptionPct == 3
\* the fumble chance 0.015, in thousandths
FumblePerMille == 15

\* the other team's id
Opponent(team) == IF team = home_team THEN away_team ELSE home_team

\* simulate_game, the setup before the loop
NewGame(possession, params) ==
    [ current_possession |-> possession,
      field_position     |-> KickoffFieldPosition,
      current_down       |-> 1,
      yards_to_first     |-> first_down_distance,
      game_clock         |-> params.quarters * params.quarter_length * 60,
      home_score         |-> 0,
      away_score         |-> 0 ]

NoPlay ==
    [ play_type |-> "none", yards_gained |-> 0, down |-> 0, distance |-> 0,
      field_position |-> 0, possession_change |-> FALSE, touchdown |-> FALSE,
      result |-> "none", turnover_type |-> "none", punt_distance |-> 0,
      offense |-> "none", yards_drawn |-> 0 ]

(***************************************************************************)
(* simulate_play                                                           *)
(***************************************************************************)
\* the field-goal success threshold 0.75 - ((100 - field_position - 17) * 0.02),
\* in hundredths
FieldGoalThreshold(field_position) == 75 - ((100 - field_position - 17) * 2)

\* IsFieldGoalAttempt with the 60-yard line itself left out
IsFieldGoalAttemptInsideRange(down, field_position) ==
    down = 4 /\ field_position > FieldGoalRange

\* "if down == 4 and field_position >= 60"
IsFieldGoalAttempt(down, field_position) ==
    down = 4 /\ field_position >= FieldGoalRange

IsPuntDeepOnly(down, field_position) ==
    down = 4 /\ field_position < FieldGoalRange - 10

\* "if down == 4 and field_position < 60"
IsPunt(down, field_position) ==
    down = 4 /\ field_position < FieldGoalRange

\* the field-goal branch: the dicts it can return
FieldGoalResults(g) ==
    { [ NoPlay EXCEPT !.play_type = "field_goal",
                      !.down = g.current_down,
                      !.distance = g.yards_to_first,
                      !.field_position = g.field_position,
                      !.possession_change = TRUE,
                      !.offense = g.current_possession,
                      !.result = IF good THEN "field_goal_good"
                                 ELSE "field_goal_missed" ]
      : good \in RandomBelow(FieldGoalThreshold(g.field_position), 100) }

\* the punt branch: "new_position = min(95, 100 - (100 - field_position +
\* punt_distance))", a local that is computed and then neither returned nor
\* stored
new_position(field_position, punt_distance) ==
    Min(95, 100 - (100 - field_position + punt_distance))

\* the punt branch: the dicts it can return
PuntResults(g) ==
    { [ NoPlay EXCEPT !.play_type = "punt",
                      !.down = g.current_down,
                      !.distance = g.yards_to_first,
                      !.field_position = g.field_position,
                      !.possession_change = TRUE,
                      !.offense = g.current_possession,
                      !.result = "punt",
                      !.punt_distance = d ]
      : d \in MinPunt..MaxPunt }

\* IsTouchdown with the goal line itself left out
IsTouchdownPastGoalLine(field_position, yards_gained) ==
    field_position + yards_gained > 100

\* "if field_position + yards_gained >= 100"
IsTouchdown(field_position, yards_gained) == field_position + yards_gained >= 100

\* TurnoverTypes with "if" for "elif": the turnover draw made on touchdowns too
TurnoverTypesOnEveryPlay(play_type, touchdown) ==
    IF play_type = "pass"
    THEN { IF hit THEN "interception" ELSE "none" : hit \in RandomBelow(InterceptionPct, 100) }
    ELSE { IF hit THEN "fumble" ELSE "none" : hit \in RandomBelow(FumblePerMille, 1000) }

\* the turnover the "elif" branches of simulate_play can rule: none on a
\* touchdown, else an interception on a pass (3%) or a fumble on a run (1.5%)
TurnoverTypes(play_type, touchdown) ==
    IF touchdown THEN {"none"}
    ELSE IF play_type = "pass"
    THEN { IF hit THEN "interception" ELSE "none" : hit \in RandomBelow(InterceptionPct, 100) }
    ELSE { IF hit THEN "fumble" ELSE "none" : hit \in RandomBelow(FumblePerMille, 1000) }

\* the dict of a regular play of type t that drew y yards and turnover to
ScrimmageResult(g, t, y, to) ==
    [ NoPlay EXCEPT !.play_type = t,
                    !.down = g.current_down,
                    !.distance = g.yards_to_first,
                    !.field_position = g.field_position,
                    !.offense = g.current_possession,
                    !.yards_drawn = y,
                    !.touchdown = IsTouchdown(g.field_position, y),
                    !.yards_gained = IF IsTouchdown(g.field_position, y)
                                     THEN 100 - g.field_position ELSE y,
                    !.possession_change = (to # "none"),
                    !.turnover_type = to,
                    !.result = IF IsTouchdown(g.field_position, y) THEN "touchdown"
                               ELSE IF to # "none" THEN to ELSE "normal" ]

\* the regular-play branch: the dicts it can return
ScrimmageResults(g, provider) ==
    UNION { UNION { { ScrimmageResult(g, t, y, to)
                      : to \in TurnoverTypes(t, IsTouchdown(g.field_position, y)) }
                    : y \in get_yards_gained(provider, t) }
            : t \in get_play_type(g.current_down, g.yards_to_first) }

\* simulate_play(game, ...): every dict the call can return
simulate_play(g, provider) ==
    IF IsFieldGoalAttempt(g.current_down, g.field_position) THEN FieldGoalResults(g)
    ELSE IF IsPunt(g.current_down, g.field_position) THEN PuntResults(g)
    ELSE ScrimmageResults(g, provider)

\* ScoreFieldGoal with the three points given to the team that defended
ScoreFieldGoalToDefense(g, pr) ==
    IF pr.result = "field_goal_good"
    THEN IF g.current_possession = home_team
         THEN [g EXCEPT !.away_score = @ + FieldGoalPoints]
         ELSE [g EXCEPT !.home_score = @ + FieldGoalPoints]
    ELSE g

\* the side effect of simulate_play on the score: a made field goal
ScoreFieldGoal(g, pr) ==
    IF pr.result = "field_goal_good"
    THEN IF g.current_possession = home_team
         THEN [g EXCEPT !.home_score = @ + FieldGoalPoints]
         ELSE [g EXCEPT !.away_score = @ + FieldGoalPoints]
    ELSE g

(***************************************************************************)
(* process_play_result                                                     *)
(***************************************************************************)
\* AfterTouchdown with possession handed over before the score is credited
AfterTouchdownCreditedLate(g, defensive_team) ==
    [ g EXCEPT !.home_score = IF defensive_team = home_team
                              THEN @ + TouchdownPoints ELSE @,
               !.away_score = IF defensive_team = home_team
                              THEN @ ELSE @ + TouchdownPoints,
               !.current_possession = defensive_team,
               !.field_position = KickoffFieldPosition,
               !.current_down = 1,
               !.yards_to_first = 10 ]

\* the touchdown branch
AfterTouchdown(g, defensive_team) ==
    [ g EXCEPT !.home_score = IF g.current_possession = home_team
                              THEN @ + TouchdownPoints ELSE @,
               !.away_score = IF g.current_possession = home_team
                              THEN @ ELSE @ + TouchdownPoints,
               !.current_possession = defensive_team,
               !.field_position = KickoffFieldPosition,
               !.current_down = 1,
               !.yards_to_first = 10 ]

\* "game.field_position = 100 - game.field_position  # Flip field position"
FlipFieldPosition(field_position) == 100 - field_position

AfterPossessionChangeKeepsBall(g, defensive_team) ==
    [ g EXCEPT !.field_position = FlipFieldPosition(g.field_position),
               !.current_down = 1,
               !.yards_to_first = 10 ]

\* the possession-change branch, and the turnover on downs
AfterPossessionChange(g, defensive_team) ==
    [ g EXCEPT !.current_possession = defensive_team,
               !.field_position = FlipFieldPosition(g.field_position),
               !.current_down = 1,
               !.yards_to_first = 10 ]

\* FirstDownDistance without the adjustment near the goal line
FirstDownDistanceUnadjusted(field_position) == first_down_distance

\* "min(10, 100 - game.field_position)  # Adjust if near goal line"
FirstDownDistance(field_position) == Min(10, 100 - field_position)

\* GainsFirstDown needing one yard more than the distance
GainsFirstDownStrict(yards_gained, yards_to_first) == yards_gained > yards_to_first

\* "if yards_gained >= game.yards_to_first"
GainsFirstDown(yards_gained, yards_to_first) == yards_gained >= yards_to_first

\* the normal-play branch: field position, then down and distance
AfterNormalPlay(g, yards_gained, defensive_team) ==
    LET moved == [g EXCEPT !.field_position = @ + yards_gained]
    IN  IF GainsFirstDown(yards_gained, g.yards_to_first)
        THEN [ moved EXCEPT !.current_down = 1,
                            !.yards_to_first = FirstDownDistance(moved.field_position) ]
        ELSE LET next == [ moved EXCEPT !.current_down = @ + 1,
                                        !.yards_to_first = @ - yards_gained ]
             IN  IF next.current_down > 4
                 THEN AfterPossessionChange(next, defensive_team)
                 ELSE next

process_play_result(g, pr, defensive_team) ==
    IF pr.touchdown THEN AfterTouchdown(g, defensive_team)
    ELSE IF pr.possession_change THEN AfterPossessionChange(g, defensive_team)
    ELSE AfterNormalPlay(g, pr.yards_gained, defensive_team)

(***************************************************************************)
(* simulate_game: the play loop                                            *)
(***************************************************************************)
\* the ids of SimulationEngine.default_teams, which load_default_teams
\* registers in self.teams
DefaultTeamIds == {"NE", "KC", "SF", "BAL"}

\* a Team as load_default_teams builds it: TeamStats() and an empty roster
FreshTeam == [total_yards |-> 0, wins |-> 0, roster_passing_yards |-> 0]

\* None, where a Team is expected
None == "None"

\* a call of op that is running
NewCall(op) ==
    [ op |-> op, status |-> "running", error |-> "none",
      home_team |-> None, away_team |-> None, num_games |-> 0,
      teams |-> << >>, schedule |-> << >> ]

\* what a caller has of the engine before it calls simulate_game,
\* simulate_multiple_games or simulate_season on it
NoCall == [NewCall("none") EXCEPT !.status = "idle"]
NoReturn == [kind |-> "none"]
NoSummary == [kind |-> "none"]

\* no Player or Team object is followed
NoObjects ==
    /\ player_objects = << >>
    /\ rosters = << >>
    /\ team_stats = << >>
    /\ game_summary = NoSummary
    /\ games_completed = << >>
    /\ plays_made = 0

NoCallMade ==
    /\ call = NoCall
    /\ team_objects = [t \in DefaultTeamIds |-> FreshTeam]
    /\ all_results = << >>
    /\ all_player_stats = << >>
    /\ standings = << >>
    /\ returned = NoReturn

\* LoopGuard without the safety limit on the number of plays
LoopGuardClockOnly(g, count) == g.game_clock > 0

\* "while game.game_clock > 0 and play_count < max_plays"
LoopGuard(g, count) == g.game_clock > 0 /\ count < max_plays

TickClockByDefault(g, params) == [g EXCEPT !.game_clock = @ - 40]

\* "game.game_clock -= self.parameters.get('time_between_plays', 40)"
TickClock(g, params) == [g EXCEPT !.game_clock = @ - params.time_between_plays]

\* One iteration of the loop: simulate_play, play_history.append,
\* play_count += 1, the clock, then
\* process_play_result with the defensive team chosen at the top of the
\* iteration.  update_player_stats only reads the play and writes player_stats
\* and the player ids of the dict: PlayWithStats is the iteration with the
\* player_stats followed.
Play ==
    /\ pc = "loop"
    /\ LoopGuard(game, play_count)
    /\ \E pr \in simulate_play(game, data_provider) :
          LET defensive_team == Opponent(game.current_possession)
              kicked == ScoreFieldGoal(game, pr)
          IN  /\ play_result' = pr
              /\ game' = process_play_result(TickClock(kicked, parameters), pr, defensive_team)
    /\ plays_recorded' = plays_recorded + 1
    /\ play_count' = play_count + 1
    /\ UNCHANGED <<parameters, data_provider, player_stats_kept, pc>>
    /\ UNCHANGED gvars
    /\ UNCHANGED avars
    /\ UNCHANGED ovars

\* the loop exits: simulate_game goes on to build its results
Finish ==
    /\ pc = "loop"
    /\ ~LoopGuard(game, play_count)
    /\ pc' = "done"
    /\ UNCHANGED <<parameters, data_provider, game, play_count, plays_recorded,
                   player_stats_kept, play_result>>
    /\ UNCHANGED gvars
    /\ UNCHANGED avars
    /\ UNCHANGED ovars

Next == Play \/ Finish

\* the Game object simulate_game constructs and never runs: "Game(home_team=
\* home_team, away_team=away_team)"
GameConstructed ==
    /\ teams = [home |-> DefaultTeam(home_team), away |-> DefaultTeam(away_team)]
    /\ clock = DefaultGameClock
    /\ state = NewGameState(home_team)
    /\ result = NoResult
    /\ gpc = "new"

\* parameters of the short games: the default time between plays, and
\* 1 .. MaxQuarters quarters of one minute
ShortGameParameters ==
    { [quarters |-> q, quarter_length |-> 1, time_between_plays |-> 40,
       first_down_distance |-> 10] : q \in 1..MaxQuarters }

\* after the setup of simulate_game, with the fallback distributions
Init ==
    /\ parameters \in ShortGameParameters
    /\ data_provider = ProviderNotLoaded
    /\ \E possession \in {home_team, away_team} : game = NewGame(possession, parameters)
    /\ play_count = 0
    /\ plays_recorded = 0
    /\ player_stats_kept = << >>
    /\ play_result = NoPlay
    /\ pc = "loop"
    /\ GameConstructed
    /\ NoCallMade
    /\ NoObjects

Spec == Init /\ [][Next]_vars

\* the values of parameters['time_between_plays'] tried for full-length games:
\* negative, zero, and positive ones that end the game after, at and before
\* the 150th play
TimeBetweenPlaysTried == {-40, 0, 20, 24, 40}

\* parameters of the full-length games: 4 quarters of 15 minutes
FullGameParameters ==
    { [quarters |-> 4, quarter_length |-> 15, time_between_plays |-> d,
       first_down_distance |-> 10] : d \in TimeBetweenPlaysTried }

\* after the setup of simulate_game for a full-length game, the provider
\* having loaded a distribution in which every play gains 0 yards
InitLoop ==
    /\ parameters \in FullGameParameters
    /\ data_provider = ProviderFlat
    /\ \E possession \in {home_team, away_team} : game = NewGame(possession, parameters)
    /\ play_count = 0
    /\ plays_recorded = 0
    /\ player_stats_kept = << >>
    /\ play_result = NoPlay
    /\ pc = "loop"
    /\ GameConstructed
    /\ NoCallMade
    /\ NoObjects

SpecLoop == InitLoop /\ [][Next]_vars

(***************************************************************************)
(* Game.simulate_game of models/game.py: the play loop                     *)
(***************************************************************************)
\* the bound on the scores: a touchdown is left out when it would take the
\* side in possession past MaxGameScore
WithinScoreBound(tm, st, r) ==
    (r.is_touchdown /\ ~r.is_fumble) =>
        (IF st.possession = tm.home.id THEN st.home_score ELSE st.away_score) + 7
            <= MaxGameScore

\* "self.clock.start()"
GameStart ==
    /\ gpc = "new"
    /\ clock' = start(clock)
    /\ gpc' = "loop"
    /\ UNCHANGED <<teams, state, result>>
    /\ UNCHANGED evars
    /\ UNCHANGED avars
    /\ UNCHANGED ovars

\* one iteration of "while not self.clock.is_game_over()": simulate_play (the
\* play, the clock, the state), then the end-of-quarter check.  The players'
\* stats, which simulate_play also updates, are written and never read here.
GamePlay ==
    /\ gpc = "loop"
    /\ ~is_game_over(clock)
    /\ LET offense == teams[get_possession_team(teams, state)]
       IN  \E r \in PlayResults(offense, state) :
              /\ WithinScoreBound(teams, state, r)
              /\ result' = r
              /\ clock' = EndOfQuarterCheck(
                              IF ClockRuns(r) THEN advance(clock, time_elapsed) ELSE clock)
              /\ state' = UpdateGameState(teams, state, r)
    /\ UNCHANGED <<teams, gpc>>
    /\ UNCHANGED evars
    /\ UNCHANGED avars
    /\ UNCHANGED ovars

\* the loop exits: "Game over - process results"
GameFinish ==
    /\ gpc = "loop"
    /\ is_game_over(clock)
    /\ gpc' = "done"
    /\ UNCHANGED <<teams, clock, state, result>>
    /\ UNCHANGED evars
    /\ UNCHANGED avars
    /\ UNCHANGED ovars

NextGame == GameStart \/ GamePlay \/ GameFinish

\* the rosters and tendencies tried: the default teams, an away team without
\* a QB, without an RB, without a QB and always passing, and a home team with
\* neither
TeamsTried ==
    { [home |-> DefaultTeam(home_team), away |-> a]
      : a \in { DefaultTeam(away_team),
                NewTeam(away_team, FALSE, TRUE, DefaultPassTendency),
                NewTeam(away_team, TRUE, FALSE, DefaultPassTendency),
                NewTeam(away_team, FALSE, TRUE, 100) } }
    \cup { [home |-> NewTeam(home_team, FALSE, FALSE, DefaultPassTendency),
            away |-> DefaultTeam(away_team)] }

\* the engine when no simulate_game of it is running
EngineIdle ==
    /\ parameters = [quarters |-> 4, quarter_length |-> 15, time_between_plays |-> 40,
                     first_down_distance |-> 10]
    /\ data_provider = ProviderNotLoaded
    /\ game = NewGame(home_team, parameters)
    /\ play_count = 0
    /\ plays_recorded = 0
    /\ player_stats_kept = << >>
    /\ play_result = NoPlay
    /\ pc = "idle"

\* a Game after construction
InitGame ==
    /\ teams \in TeamsTried
    /\ \E ql \in 1..MaxGameQuarterLength : clock = NewGameClock(ql)
    /\ state = NewGameState(teams.home.id)
    /\ result = NoResult
    /\ gpc = "new"
    /\ EngineIdle
    /\ NoCallMade
    /\ NoObjects

SpecGame == InitGame /\ [][NextGame]_vars

\* The loop of Game.simulate_game keeps running while the game is not over;
\* and a play on which the clock runs, as long as one can be drawn, is drawn
\* again and again.
SpecGameFair ==
    /\ InitGame
    /\ [][NextGame]_vars
    /\ WF_vars(NextGame)
    /\ SF_vars(GamePlay /\ clock' # clock)

(***************************************************************************)
(* simulation/engine.py: player statistics.  A stats dict is a record of   *)
(* the player's position and team_id and of stats, the function from the   *)
(* numeric keys the dict holds to their values.                            *)
(***************************************************************************)
\* dict.get(key, 0)
Get(d, key) == IF key \in DOMAIN d THEN d[key] ELSE 0

\* d[key] = value
Put(d, key, value) ==
    [k \in DOMAIN d \cup {key} |-> IF k = key THEN value ELSE d[k]]

NewPlayer(id, position, team_id) ==
    [id |-> id, position |-> position, team_id |-> team_id]

\* SimulationEngine.default_players
default_players ==
    [ t \in DefaultTeamIds |->
        CASE t = "NE" ->
               << NewPlayer("NE_QB1", "QB", t), NewPlayer("NE_RB1", "RB", t),
                  NewPlayer("NE_WR1", "WR", t), NewPlayer("NE_WR2", "WR", t),
                  NewPlayer("NE_TE1", "TE", t) >>
          [] t = "KC" ->
               << NewPlayer("KC_QB1", "QB", t), NewPlayer("KC_RB1", "RB", t),
                  NewPlayer("KC_WR1", "WR", t), NewPlayer("KC_WR2", "WR", t),
                  NewPlayer("KC_TE1", "TE", t) >>
          [] t = "SF" ->
               << NewPlayer("SF_QB1", "QB", t), NewPlayer("SF_RB1", "RB", t),
                  NewPlayer("SF_WR1", "WR", t), NewPlayer("SF_WR2", "WR", t),
                  NewPlayer("SF_TE1", "TE", t) >>
          [] OTHER ->
               << NewPlayer("BAL_QB1", "QB", t), NewPlayer("BAL_RB1", "RB", t),
                  NewPlayer("BAL_WR1", "WR", t), NewPlayer("BAL_WR2", "WR", t),
                  NewPlayer("BAL_TE1", "TE", t) >> ]

\* get_players_for_team: "self.default_players.get(team_id, [])"
get_players_for_team(team_id) ==
    IF team_id \in DOMAIN default_players THEN default_players[team_id] ELSE << >>

\* initialize_player_stats: the position-specific keys, all 0
InitialStatKeys(position) ==
    CASE position = "QB" ->
           { "pass_attempts", "pass_completions", "pass_yards", "pass_tds",
             "interceptions", "rush_attempts", "rush_yards", "rush_tds" }
      [] position = "RB" ->
           { "rush_attempts", "rush_yards", "rush_tds", "receptions",
             "receiving_yards", "receiving_tds", "fumbles" }
      [] position \in {"WR", "TE"} ->
           { "targets", "receptions", "receiving_yards", "receiving_tds",
             "rush_attempts", "rush_yards", "rush_tds" }
      [] OTHER -> {}

\* initialize_player_stats(players)
initialize_player_stats(players) ==
    [ id \in { players[i].id : i \in DOMAIN players } |->
        LET player == players[CHOOSE i \in DOMAIN players :
                                  /\ players[i].id = id
                                  /\ \A j \in DOMAIN players :
                                        players[j].id = id => j <= i]
        IN  [ position |-> player.position,
              team_id  |-> player.team_id,
              stats    |-> [k \in InitialStatKeys(player.position) |-> 0] ] ]

\* player_stats[id][key] = player_stats[id].get(key, 0) + delta
AddStat(player_stats, id, key, delta) ==
    [player_stats EXCEPT ![id].stats = Put(@, key, Get(@, key) + delta)]

IsQB(player) == player.position = "QB"

\* the players of a list at the given positions
PlayersAt(players, positions) ==
    { players[i] : i \in { j \in DOMAIN players : players[j].position \in positions } }

PassStatsTouchdownToPasser(pr, passer, receiver, player_stats) ==
    LET is_complete == pr.yards_gained > 0
        attempted == AddStat(player_stats, passer.id, "pass_attempts", 1)
        completed ==
            AddStat(AddStat(AddStat(AddStat(AddStat(attempted,
                passer.id, "pass_completions", 1),
                passer.id, "pass_yards", pr.yards_gained),
                receiver.id, "targets", 1),
                receiver.id, "receptions", 1),
                receiver.id, "receiving_yards", pr.yards_gained)
        thrown ==
            IF is_complete
            THEN IF pr.touchdown
                 THEN AddStat(completed, passer.id, "pass_tds", 1)
                 ELSE completed
            ELSE AddStat(attempted, receiver.id, "targets", 1)
    IN  IF pr.turnover_type = "interception"
        THEN AddStat(thrown, passer.id, "interceptions", 1)
        ELSE thrown

\* update_player_stats, a pass thrown by passer to receiver
PassStats(pr, passer, receiver, player_stats) ==
    LET is_complete == pr.yards_gained > 0
        attempted == AddStat(player_stats, passer.id, "pass_attempts", 1)
        completed ==
            AddStat(AddStat(AddStat(AddStat(AddStat(attempted,
                passer.id, "pass_completions", 1),
                passer.id, "pass_yards", pr.yards_gained),
                receiver.id, "targets", 1),
                receiver.id, "receptions", 1),
                receiver.id, "receiving_yards", pr.yards_gained)
        thrown ==
            IF is_complete
            THEN IF pr.touchdown
                 THEN AddStat(AddStat(completed, passer.id, "pass_tds", 1),
                              receiver.id, "receiving_tds", 1)
                 ELSE completed
            ELSE AddStat(attempted, receiver.id, "targets", 1)
    IN  IF pr.turnover_type = "interception"
        THEN AddStat(thrown, passer.id, "interceptions", 1)
        ELSE thrown

\* update_player_stats, a run by runner
RunStats(pr, runner, player_stats) ==
    LET carried == AddStat(AddStat(player_stats, runner.id, "rush_attempts", 1),
                           runner.id, "rush_yards", pr.yards_gained)
        scored == IF pr.touchdown THEN AddStat(carried, runner.id, "rush_tds", 1)
                  ELSE carried
    IN  IF pr.turnover_type = "fumble"
        THEN AddStat(scored, runner.id, "fumbles", 1)
        ELSE scored

\* update_player_stats(play_result, offensive_players, player_stats): every
\* player_stats the call can leave, over the draws of the receiver (any WR
\* or TE) and of the runner (an RB at 80% if there is one, else the QB)
update_player_stats(pr, offensive_players, player_stats) ==
    LET qbs == SelectSeq(offensive_players, IsQB)
        rbs == PlayersAt(offensive_players, {"RB"})
        receivers == PlayersAt(offensive_players, {"WR", "TE"})
        runners == rbs \cup (IF qbs # << >> THEN {Head(qbs)} ELSE {})
    IN  IF pr.play_type = "pass"
        THEN IF qbs = << >> \/ receivers = {} THEN {player_stats}
             ELSE { IF Head(qbs).id \in DOMAIN player_stats
                       /\ receiver.id \in DOMAIN player_stats
                    THEN PassStats(pr, Head(qbs), receiver, player_stats)
                    ELSE player_stats
                    : receiver \in receivers }
        ELSE IF pr.play_type = "run"
        THEN IF runners = {} THEN {player_stats}
             ELSE { IF runner.id \in DOMAIN player_stats
                    THEN RunStats(pr, runner, player_stats)
                    ELSE player_stats
                    : runner \in runners } \cup
                  (IF qbs = << >> THEN {player_stats} ELSE {})
        ELSE {player_stats}

\* calculate_fantasy_points_for_player(stats), in hundredths of a point
calculate_fantasy_points_for_player(st) ==
    IF st.position = "QB"
    THEN 4 * Get(st.stats, "pass_yards") + 400 * Get(st.stats, "pass_tds")
         - 200 * Get(st.stats, "interceptions")
         + 10 * Get(st.stats, "rush_yards") + 600 * Get(st.stats, "rush_tds")
    ELSE IF st.position \in {"RB", "WR", "TE"}
    THEN 10 * Get(st.stats, "rush_yards") + 600 * Get(st.stats, "rush_tds")
         + 10 * Get(st.stats, "receiving_yards")
         + 600 * Get(st.stats, "receiving_tds")
         + 50 * Get(st.stats, "receptions") - 200 * Get(st.stats, "fumbles")
    ELSE 0

\* calculate_fantasy_points_from_stats(player_stats): per player the sum
\* calculate_fantasy_points_for_player also makes
calculate_fantasy_points_from_stats(player_stats) ==
    [ id \in DOMAIN player_stats |->
        calculate_fantasy_points_for_player(player_stats[id]) ]

(***************************************************************************)
(* simulate_game as a whole                                                *)
(***************************************************************************)
RECURSIVE PlayLoop(_, _, _, _, _)
\* the while loop of simulate_game from game g, play_count count and
\* player_stats on: every <<game, play_count, player_stats>> it can exit with
PlayLoop(g, count, player_stats, params, provider) ==
    IF ~LoopGuard(g, count)
    THEN { [game |-> g, total_plays |-> count, player_stats |-> player_stats] }
    ELSE UNION { UNION { PlayLoop(process_play_result(
                                      TickClock(ScoreFieldGoal(g, pr), params), pr,
                                      Opponent(g.current_possession)),
                                  count + 1, updated, params, provider)
                         : updated \in update_player_stats(
                               pr, get_players_for_team(g.current_possession),
                               player_stats) }
                 : pr \in simulate_play(g, provider) }

\* simulate_game(home_team, away_team) once both teams are resolved: every
\* results dict it can return (game_id, date, the names, play_history and
\* player_stats_web left out)
simulate_game(params, provider) ==
    LET home_players == get_players_for_team(home_team)
        away_players == get_players_for_team(away_team)
        player_stats == initialize_player_stats(home_players \o away_players)
    IN  UNION { { [ home_team |-> [id |-> home_team, score |-> end.game.home_score],
                    away_team |-> [id |-> away_team, score |-> end.game.away_score],
                    total_plays |-> end.total_plays,
                    player_stats |-> end.player_stats,
                    fantasy_points |->
                        calculate_fantasy_points_from_stats(end.player_stats) ]
                  : end \in PlayLoop(NewGame(possession, params), 0, player_stats,
                                     params, provider) }
                : possession \in {home_team, away_team} }

(***************************************************************************)
(* The calls on the engine.  A Team object is known by its id.             *)
(***************************************************************************)
\* SimulationEngine.get_team: "self.teams.get(team_id)", self.teams holding
\* the default teams
get_team(team_id) == IF team_id \in DefaultTeamIds THEN team_id ELSE None

\* TeamsResolved with the away team left unchecked
TeamsResolvedHomeOnly(home, away) == home # None

\* the negation of "if not home_team or not away_team"
TeamsResolved(home, away) == home # None /\ away # None

\* Team.reset_for_new_game: reset_game_stats zeroes every stat but wins,
\* losses and ties, and every roster player gets an empty stats object
reset_for_new_game(team) ==
    [team EXCEPT !.total_yards = 0, !.roster_passing_yards = 0]

\* "Game(home_team=home_team, away_team=away_team)": Game.__post_init__
\* resets both teams
ConstructGame(objects, home, away) ==
    [ t \in DOMAIN objects |->
        IF t \in {home, away} THEN reset_for_new_game(objects[t]) ELSE objects[t] ]

\* the ids simulate_game and simulate_multiple_games are called with: those
\* of home_team and away_team, and one no Team has
UnknownTeamId == "XX"
HomeArgsTried == {home_team, UnknownTeamId}
AwayArgsTried == {away_team, UnknownTeamId}

\* a direct call simulate_game(h, a) with two ids
SimulateGame ==
    /\ call.status = "idle"
    /\ \E h \in HomeArgsTried, a \in AwayArgsTried :
          LET home == get_team(h)
              away == get_team(a)
              made == [NewCall("simulate_game") EXCEPT !.home_team = h, !.away_team = a]
          IN  IF ~TeamsResolved(home, away)
              THEN /\ call' = [made EXCEPT !.status = "raised", !.error = "ValueError"]
                   /\ UNCHANGED <<team_objects, returned>>
              ELSE /\ call' = [made EXCEPT !.status = "returned"]
                   /\ team_objects' = ConstructGame(team_objects, home, away)
                   /\ \E r \in simulate_game(parameters, data_provider) :
                         returned' = [kind |-> "game", value |-> r]
    /\ UNCHANGED <<all_results, all_player_stats, standings>>
    /\ UNCHANGED evars
    /\ UNCHANGED gvars
    /\ UNCHANGED ovars

(***************************************************************************)
(* simulate_multiple_games and analyze_player_stats                        *)
(***************************************************************************)
\* all_player_stats[player_id] on the player's first game: a copy of the
\* game's stats with games and stats_by_game added
FirstGameStats(game_stats) ==
    [ position |-> game_stats.position, team_id |-> game_stats.team_id,
      stats |-> game_stats.stats, games |-> 1, stats_by_game |-> <<game_stats>> ]

\* AddGameStats with the cumulative values overwritten by the last game's
AddGameStatsLastOnly(kept, game_stats) ==
    [ kept EXCEPT !.games = @ + 1,
                  !.stats_by_game = Append(@, game_stats),
                  !.stats = [ key \in DOMAIN kept.stats \cup DOMAIN game_stats.stats |->
                                Get(game_stats.stats, key) ] ]

\* all_player_stats[player_id] on a later game: "Update cumulative stats"
AddGameStats(kept, game_stats) ==
    [ kept EXCEPT !.games = @ + 1,
                  !.stats_by_game = Append(@, game_stats),
                  !.stats = [ key \in DOMAIN kept.stats \cup DOMAIN game_stats.stats |->
                                Get(kept.stats, key) + Get(game_stats.stats, key) ] ]

\* "Aggregate player stats across games": the body of the for loop after
\* the game's results are appended
AggregateGame(kept, player_stats) ==
    [ player_id \in DOMAIN kept \cup DOMAIN player_stats |->
        IF player_id \notin DOMAIN player_stats THEN kept[player_id]
        ELSE IF player_id \notin DOMAIN kept
        THEN FirstGameStats(player_stats[player_id])
        ELSE AddGameStats(kept[player_id], player_stats[player_id]) ]

RECURSIVE SumOf(_)
\* sum(values)
SumOf(values) ==
    IF values = << >> THEN 0 ELSE Head(values) + SumOf(Tail(values))

\* MinOf taking the first value
MinOfFirst(values) == values[1]

\* min(values)
MinOf(values) ==
    CHOOSE v \in {values[i] : i \in DOMAIN values} :
        \A i \in DOMAIN values : v <= values[i]

\* max(values)
MaxOf(values) ==
    CHOOSE v \in {values[i] : i \in DOMAIN values} :
        \A i \in DOMAIN values : v >= values[i]

\* analyze_player_stats: the stat_keys of a position
stat_keys(position) ==
    CASE position = "QB" ->
           { "pass_attempts", "pass_completions", "pass_yards", "pass_tds",
             "interceptions", "rush_attempts", "rush_yards", "rush_tds" }
      [] position = "RB" ->
           { "rush_attempts", "rush_yards", "rush_tds", "receptions",
             "receiving_yards", "receiving_tds", "fumbles" }
      [] position \in {"WR", "TE"} ->
           { "targets", "receptions", "receiving_yards", "receiving_tds",
             "rush_attempts", "rush_yards", "rush_tds" }
      [] OTHER -> {}

\* analyze_player_stats, the projection of one player: games_played, and per
\* stat key and for the fantasy points (in hundredths) the total, the minimum
\* and the maximum over stats_by_game.  The averages and standard deviations,
\* floats computed from the same values, are left out.
PlayerProjection(kept) ==
    LET stats_by_game == kept.stats_by_game
        values(key) == [i \in DOMAIN stats_by_game |-> Get(stats_by_game[i].stats, key)]
        fantasy_points == [i \in DOMAIN stats_by_game |->
                              calculate_fantasy_points_for_player(stats_by_game[i])]
    IN  [ position |-> kept.position,
          team_id |-> kept.team_id,
          games_played |-> Len(stats_by_game),
          total |-> [key \in stat_keys(kept.position) |-> SumOf(values(key))],
          min |-> [key \in stat_keys(kept.position) |-> MinOf(values(key))],
          max |-> [key \in stat_keys(kept.position) |-> MaxOf(values(key))],
          fantasy_points_total |-> SumOf(fantasy_points),
          fantasy_points_min |-> MinOf(fantasy_points),
          fantasy_points_max |-> MaxOf(fantasy_points) ]

\* analyze_player_stats(all_player_stats, num_games)
analyze_player_stats(kept, num_games) ==
    [player_id \in DOMAIN kept |-> PlayerProjection(kept[player_id])]

\* "sum(1 for r in all_results if ...)"
CountResults(results, Test(_)) ==
    Cardinality({i \in DOMAIN results : Test(results[i])})

HomeWon(r) == r.home_team.score > r.away_team.score
AwayWon(r) == r.away_team.score > r.home_team.score

\* Tied counting the games the home team did not lose
TiedOrHomeWon(r) == r.home_team.score >= r.away_team.score

Tied(r) == r.home_team.score = r.away_team.score

\* "Compile summary statistics": the summary dict; an average is kept as
\* the sum and num_games it is the quotient of
Summary(results, kept, home, away, num_games) ==
    [ num_games |-> num_games,
      home_team |-> [ id |-> home, wins |-> CountResults(results, HomeWon),
                      avg_score |-> [ num |-> SumOf([i \in DOMAIN results |->
                                                       results[i].home_team.score]),
                                      den |-> num_games ] ],
      away_team |-> [ id |-> away, wins |-> CountResults(results, AwayWon),
                      avg_score |-> [ num |-> SumOf([i \in DOMAIN results |->
                                                       results[i].away_team.score]),
                                      den |-> num_games ] ],
      ties |-> CountResults(results, Tied),
      player_projections |-> analyze_player_stats(kept, num_games) ]

\* simulate_multiple_games(h, a, n) up to the for loop: the ids are resolved
\* and checked
BatchStart ==
    /\ call.status = "idle"
    /\ \E h \in HomeArgsTried, a \in AwayArgsTried, n \in 1..MaxGames :
          LET home == get_team(h)
              away == get_team(a)
              made == [NewCall("simulate_multiple_games")
                         EXCEPT !.home_team = h, !.away_team = a, !.num_games = n]
          IN  IF ~TeamsResolved(home, away)
              THEN call' = [made EXCEPT !.status = "raised", !.error = "ValueError"]
              ELSE call' = made
    /\ all_results' = << >>
    /\ all_player_stats' = << >>
    /\ UNCHANGED <<team_objects, standings, returned>>
    /\ UNCHANGED evars
    /\ UNCHANGED gvars
    /\ UNCHANGED ovars

\* one iteration of "for i in range(num_games)"
BatchGame ==
    /\ call.op = "simulate_multiple_games"
    /\ call.status = "running"
    /\ Len(all_results) < call.num_games
    /\ \E game_results \in simulate_game(parameters, data_provider) :
          /\ all_results' = Append(all_results, game_results)
          /\ all_player_stats' = AggregateGame(all_player_stats, game_results.player_stats)
    /\ team_objects' = ConstructGame(team_objects, call.home_team, call.away_team)
    /\ UNCHANGED <<call, standings, returned>>
    /\ UNCHANGED evars
    /\ UNCHANGED gvars
    /\ UNCHANGED ovars

RECURSIVE AggregateAll(_)
\* all_player_stats after the for loop has run over the given results
AggregateAll(results) ==
    IF results = << >> THEN << >>
    ELSE AggregateGame(AggregateAll(SubSeq(results, 1, Len(results) - 1)),
                       results[Len(results)].player_stats)

\* after the loop: the summary, and the return
BatchReturn ==
    /\ call.op = "simulate_multiple_games"
    /\ call.status = "running"
    /\ Len(all_results) = call.num_games
    /\ returned' = [ kind |-> "batch",
                     summary |-> Summary(all_results, all_player_stats,
                                         call.home_team, call.away_team, call.num_games),
                     games |-> all_results ]
    /\ call' = [call EXCEPT !.status = "returned"]
    /\ UNCHANGED <<team_objects, all_results, all_player_stats, standings>>
    /\ UNCHANGED evars
    /\ UNCHANGED gvars
    /\ UNCHANGED ovars

(***************************************************************************)
(* simulate_season                                                         *)
(***************************************************************************)
\* a Team a caller has built and not registered with the engine
UnregisteredTeamId == "DAL"

\* the standings entry of a team before the first game
NewStanding(team_id) ==
    [ team_id |-> team_id, wins |-> 0, losses |-> 0, ties |-> 0,
      points_for |-> 0, points_against |-> 0 ]

\* the <<home score, away score>> pairs a simulate_game can end with.
\* simulate_game reads the ids of its teams only to tell the home side from
\* the away side, so the scores of any two different teams are those of
\* home_team against away_team.
GameScores(params, provider) ==
    { <<r.home_team.score, r.away_team.score>> : r \in simulate_game(params, provider) }

\* "Update standings", the points of the home team
HomePoints(table, home_id, home_score, away_score) ==
    [table EXCEPT ![home_id].points_for = @ + home_score,
                  ![home_id].points_against = @ + away_score]

\* "Update standings", the points of the away team
AwayPoints(table, away_id, home_score, away_score) ==
    [table EXCEPT ![away_id].points_for = @ + away_score,
                  ![away_id].points_against = @ + home_score]

WinLossTieWithoutLoss(table, home_id, away_id, home_score, away_score) ==
    IF home_score > away_score
    THEN [table EXCEPT ![home_id].wins = @ + 1]
    ELSE IF away_score > home_score
    THEN [table EXCEPT ![away_id].wins = @ + 1]
    ELSE [table EXCEPT ![home_id].ties = @ + 1, ![away_id].ties = @ + 1]

\* "Update standings", wins, losses and ties
WinLossTie(table, home_id, away_id, home_score, away_score) ==
    IF home_score > away_score
    THEN [table EXCEPT ![home_id].wins = @ + 1, ![away_id].losses = @ + 1]
    ELSE IF away_score > home_score
    THEN [table EXCEPT ![away_id].wins = @ + 1, ![home_id].losses = @ + 1]
    ELSE [table EXCEPT ![home_id].ties = @ + 1, ![away_id].ties = @ + 1]

SortKeyAtLeastWinsOnly(a, b) ==
    a.wins >= b.wins

\* the sort key (wins, points_for - points_against) of a is at least that of b
SortKeyAtLeast(a, b) ==
    \/ a.wins > b.wins
    \/ /\ a.wins = b.wins
       /\ a.points_for - a.points_against >= b.points_for - b.points_against

RECURSIVE SortedStandings(_)
\* "standings_list.sort(key=..., reverse=True)": a stable sort, so entries
\* with equal keys keep the order they had in the list
SortedStandings(list) ==
    IF list = << >> THEN << >>
    ELSE LET front == SortedStandings(SubSeq(list, 1, Len(list) - 1))
             last == list[Len(list)]
             before == Cardinality({i \in DOMAIN front : SortKeyAtLeast(front[i], last)})
         IN  SubSeq(front, 1, before) \o <<last>> \o SubSeq(front, before + 1, Len(front))

\* the teams arguments tried: the home and away teams, and these with the
\* unregistered team
TeamListsTried ==
    { <<home_team, away_team>>, <<away_team, home_team, UnregisteredTeamId>> }

\* the schedule entries tried: between teams of the list, with a team only
\* the engine has registered, and with the unregistered team
MatchupsTried ==
    { <<home_team, away_team>>, <<away_team, home_team>>, <<home_team, "SF">>,
      <<UnregisteredTeamId, home_team>>, <<away_team, UnregisteredTeamId>> }

RECURSIVE SchedulesOfLength(_)
SchedulesOfLength(n) ==
    IF n = 0 THEN { << >> }
    ELSE { Append(sch, m) : sch \in SchedulesOfLength(n - 1), m \in MatchupsTried }

SchedulesTried == UNION { SchedulesOfLength(n) : n \in 0..MaxSchedule }

\* simulate_season(teams, schedule) up to the for loop
SeasonStart ==
    /\ call.status = "idle"
    /\ \E ts \in TeamListsTried, sch \in SchedulesTried :
          /\ call' = [NewCall("simulate_season") EXCEPT !.teams = ts, !.schedule = sch]
          /\ standings' = [id \in {ts[i] : i \in DOMAIN ts} |-> NewStanding(id)]
    /\ all_results' = << >>
    /\ UNCHANGED <<team_objects, all_player_stats, returned>>
    /\ UNCHANGED evars
    /\ UNCHANGED gvars
    /\ UNCHANGED ovars

\* one iteration of "for home_id, away_id in schedule".  Of the result of
\* simulate_game the loop reads the two scores; player_stats and total_plays
\* are left out of the result kept.
SeasonGame ==
    /\ call.op = "simulate_season"
    /\ call.status = "running"
    /\ Len(all_results) < Len(call.schedule)
    /\ LET home_id == call.schedule[Len(all_results) + 1][1]
           away_id == call.schedule[Len(all_results) + 1][2]
           team_dict == {call.teams[i] : i \in DOMAIN call.teams}
           home == IF home_id \in team_dict THEN home_id ELSE get_team(home_id)
           away == IF away_id \in team_dict THEN away_id ELSE get_team(away_id)
       IN  IF ~TeamsResolved(home, away)
           THEN /\ call' = [call EXCEPT !.status = "raised", !.error = "ValueError"]
                /\ UNCHANGED <<team_objects, all_results, standings>>
           ELSE /\ team_objects' = ConstructGame(team_objects, home, away)
                /\ \E score \in GameScores(parameters, data_provider) :
                      /\ all_results' = Append(all_results,
                            [ home_team |-> [id |-> home_id, score |-> score[1]],
                              away_team |-> [id |-> away_id, score |-> score[2]] ])
                      /\ IF home_id \notin DOMAIN standings
                         THEN /\ call' = [call EXCEPT !.status = "raised",
                                                      !.error = "KeyError"]
                              /\ UNCHANGED standings
                         ELSE IF away_id \notin DOMAIN standings
                         THEN /\ call' = [call EXCEPT !.status = "raised",
                                                      !.error = "KeyError"]
                              /\ standings' = HomePoints(standings, home_id,
                                                         score[1], score[2])
                         ELSE /\ standings' =
                                   WinLossTie(
                                       AwayPoints(
                                           HomePoints(standings, home_id, score[1], score[2]),
                                           away_id, score[1], score[2]),
                                       home_id, away_id, score[1], score[2])
                              /\ UNCHANGED call
    /\ UNCHANGED <<all_player_stats, returned>>
    /\ UNCHANGED evars
    /\ UNCHANGED gvars
    /\ UNCHANGED ovars

\* after the loop: the standings are sorted and returned with the games
SeasonReturn ==
    /\ call.op = "simulate_season"
    /\ call.status = "running"
    /\ Len(all_results) = Len(call.schedule)
    /\ returned' = [ kind |-> "season",
                     games |-> all_results,
                     standings |-> SortedStandings(
                         [i \in DOMAIN call.teams |-> standings[call.teams[i]]]) ]
    /\ call' = [call EXCEPT !.status = "returned"]
    /\ UNCHANGED <<team_objects, all_results, all_player_stats, standings>>
    /\ UNCHANGED evars
    /\ UNCHANGED gvars
    /\ UNCHANGED ovars

(***************************************************************************)
(* simulate_game with the players' statistics followed play by play        *)
(***************************************************************************)
\* parameters under which a game is MaxStatsPlays plays long
StatsGameParameters ==
    [quarters |-> 1, quarter_length |-> MaxStatsPlays, time_between_plays |-> 60,
     first_down_distance |-> 10]

\* NFLDataProvider after load_data read a play_outcomes.json in which a pass
\* gains 0 or 40 yards and every run 3
ProviderPassOrNothing == [loaded |-> TRUE, pass |-> {0, 40}, run |-> {3}]

\* one iteration of the loop of simulate_game, update_player_stats included
PlayWithStats ==
    /\ pc = "loop"
    /\ LoopGuard(game, play_count)
    /\ \E pr \in simulate_play(game, data_provider) :
          LET defensive_team == Opponent(game.current_possession)
              kicked == ScoreFieldGoal(game, pr)
          IN  /\ play_result' = pr
              /\ player_stats_kept' \in
                     update_player_stats(pr, get_players_for_team(game.current_possession),
                                         player_stats_kept)
              /\ game' = process_play_result(TickClock(kicked, parameters), pr, defensive_team)
    /\ plays_recorded' = plays_recorded + 1
    /\ play_count' = play_count + 1
    /\ UNCHANGED <<parameters, data_provider, pc>>
    /\ UNCHANGED gvars
    /\ UNCHANGED avars
    /\ UNCHANGED ovars

NextStats == PlayWithStats \/ Finish

\* after the setup of simulate_game: initialize_player_stats has run over the
\* players of both teams
InitStats ==
    /\ parameters = StatsGameParameters
    /\ data_provider = ProviderPassOrNothing
    /\ \E possession \in {home_team, away_team} : game = NewGame(possession, parameters)
    /\ play_count = 0
    /\ plays_recorded = 0
    /\ player_stats_kept =
           initialize_player_stats(get_players_for_team(home_team)
                                       \o get_players_for_team(away_team))
    /\ play_result = NoPlay
    /\ pc = "loop"
    /\ GameConstructed
    /\ NoCallMade
    /\ NoObjects

SpecStats == InitStats /\ [][NextStats]_vars

(***************************************************************************)
(* One call on an engine                                                   *)
(***************************************************************************)
NextCalls ==
    \/ SimulateGame
    \/ BatchStart
    \/ BatchGame
    \/ BatchReturn
    \/ SeasonStart
    \/ SeasonGame
    \/ SeasonReturn

\* parameters under which a game is one play long
OnePlayParameters ==
    [quarters |-> 1, quarter_length |-> 1, time_between_plays |-> 60,
     first_down_distance |-> 10]

\* NFLDataProvider after load_data read a play_outcomes.json in which every
\* pass gains 75 yards and every run 3
ProviderLongPass == [loaded |-> TRUE, pass |-> {75}, run |-> {3}]

\* a Team that has played: Team.stats after a Game.simulate_game it won, and
\* a roster player with live stats
PlayedTeam == [total_yards |-> 250, wins |-> 1, roster_passing_yards |-> 30]

\* the Team objects a caller holds: the registered ones and one of its own;
\* the home team and one other registered team have played, the rest are
\* fresh
TeamObjectsHeld ==
    [ t \in DefaultTeamIds \cup {UnregisteredTeamId} |->
        IF t \in {home_team, "SF"} THEN PlayedTeam ELSE FreshTeam ]

\* an engine constructed with one-play parameters, before any call
InitCalls ==
    /\ parameters = OnePlayParameters
    /\ data_provider = ProviderLongPass
    /\ game = NewGame(home_team, parameters)
    /\ play_count = 0
    /\ plays_recorded = 0
    /\ player_stats_kept = << >>
    /\ play_result = NoPlay
    /\ pc = "idle"
    /\ GameConstructed
    /\ call = NoCall
    /\ team_objects = TeamObjectsHeld
    /\ all_results = << >>
    /\ all_player_stats = << >>
    /\ standings = << >>
    /\ returned = NoReturn
    /\ NoObjects

SpecCalls == InitCalls /\ [][NextCalls]_vars

(***************************************************************************)
(* models/player.py: PlayerStats and Player.  Fantasy points are kept in   *)
(* hundredths of a point: every term of the float sum is a multiple of     *)
(* 0.04 or 0.1 or a whole number, and the sum rounds to these hundredths.  *)
(***************************************************************************)
\* PlayerStats(): every stat is 0
PlayerStats ==
    [ passing_attempts |-> 0, passing_completions |-> 0, passing_yards |-> 0,
      passing_tds |-> 0, passing_ints |-> 0,
      rushing_attempts |-> 0, rushing_yards |-> 0, rushing_tds |-> 0,
      receiving_targets |-> 0, receiving_catches |-> 0, receiving_yards |-> 0,
      receiving_tds |-> 0, fumbles |-> 0,
      tackles |-> 0, sacks |-> 0, interceptions |-> 0, forced_fumbles |-> 0,
      fumble_recoveries |-> 0, defensive_tds |-> 0 ]

\* the terms 'standard' and 'ppr' share; a reception is worth per_catch
ScoringTerms(stats, per_catch) ==
    LET passing == stats.passing_yards * 4 + stats.passing_tds * 400
                       - stats.passing_ints * 200
        rushing == stats.rushing_yards * 10 + stats.rushing_tds * 600
        receiving == stats.receiving_yards * 10
                         + stats.receiving_catches * per_catch
                         + stats.receiving_tds * 600
    IN  passing + rushing + receiving - stats.fumbles * 200

calculate_fantasy_points_catches_count(stats, scoring_system) ==
    ScoringTerms(stats, 100)

\* PlayerStats.calculate_fantasy_points(scoring_system), in hundredths
calculate_fantasy_points(stats, scoring_system) ==
    IF scoring_system = "standard" THEN ScoringTerms(stats, 0)
    ELSE IF scoring_system = "ppr" THEN ScoringTerms(stats, 100)
    ELSE 0

\* Player(id, name, team, position) with the stats given
Player(id, team, position, stats) ==
    [ id |-> id, team |-> team, position |-> position, stats |-> stats,
      historical_stats |-> << >>, fantasy_points_history |-> << >> ]

\* Player.save_game_stats
save_game_stats(player) ==
    [ player EXCEPT
        !.historical_stats = Append(@, player.stats),
        !.fantasy_points_history =
            Append(@, calculate_fantasy_points(player.stats, "standard")),
        !.stats = PlayerStats ]

(***************************************************************************)
(* A Player on its own: its fantasy points are asked for, its game stats   *)
(* are saved.                                                              *)
(***************************************************************************)
\* the stats a Player is constructed with
StatsTried ==
    { [ PlayerStats EXCEPT !.passing_yards = py, !.passing_tds = ptd,
                           !.passing_ints = pint, !.rushing_yards = ry,
                           !.rushing_tds = rtd, !.receiving_yards = cy,
                           !.receiving_catches = c, !.fumbles = f ]
      : py \in {0, 7, 300}, ptd \in {0, 3}, pint \in {0, 1}, ry \in {-3, 0, 45},
        rtd \in {0, 1}, cy \in {0, 12}, c \in {0, 4}, f \in {0, 1} }

\* the scoring systems asked for: the two the code knows and one it does not
ScoringSystemsTried == {"standard", "ppr", "half_ppr"}

\* player.stats.calculate_fantasy_points(scoring_system)
PlayerFantasyPoints ==
    /\ \E id \in DOMAIN player_objects, scoring_system \in ScoringSystemsTried :
          returned' = [ kind |-> "fantasy_points",
                        stats |-> player_objects[id].stats,
                        scoring_system |-> scoring_system,
                        points |-> calculate_fantasy_points(
                                       player_objects[id].stats, scoring_system) ]
    /\ UNCHANGED <<call, team_objects, all_results, all_player_stats, standings>>
    /\ UNCHANGED evars
    /\ UNCHANGED gvars
    /\ UNCHANGED ovars

\* player.save_game_stats()
PlayerSaveGameStats ==
    /\ \E id \in DOMAIN player_objects :
          /\ Len(player_objects[id].historical_stats) < MaxSaves
          /\ player_objects' =
                 [player_objects EXCEPT ![id] = save_game_stats(player_objects[id])]
    /\ UNCHANGED <<rosters, team_stats, game_summary, games_completed, plays_made>>
    /\ UNCHANGED evars
    /\ UNCHANGED gvars
    /\ UNCHANGED avars

NextPlayer == PlayerFantasyPoints \/ PlayerSaveGameStats

\* a Player just constructed, on no roster
InitPlayer ==
    /\ \E stats \in StatsTried :
          player_objects = [id \in {"NE_QB"} |-> Player(id, home_team, "QB", stats)]
    /\ rosters = << >>
    /\ team_stats = << >>
    /\ game_summary = NoSummary
    /\ games_completed = << >>
    /\ plays_made = 0
    /\ teams = [home |-> DefaultTeam(home_team), away |-> DefaultTeam(away_team)]
    /\ clock = DefaultGameClock
    /\ state = NewGameState(home_team)
    /\ result = NoResult
    /\ gpc = "new"
    /\ EngineIdle
    /\ NoCallMade

SpecPlayer == InitPlayer /\ [][NextPlayer]_vars

(***************************************************************************)
(* models/team.py: Team.  A Player object is known by its id: a roster is  *)
(* the set of the ids of the Player objects it holds.                      *)
(***************************************************************************)
\* TeamStats(): every stat is 0
TeamStats ==
    [ points_scored |-> 0, total_yards |-> 0, passing_yards |-> 0,
      rushing_yards |-> 0, first_downs |-> 0, turnovers |-> 0,
      time_of_possession |-> 0, sacks |-> 0, interceptions |-> 0,
      wins |-> 0, losses |-> 0, ties |-> 0 ]

reset_game_stats_with_record(stats) == TeamStats

\* TeamStats.reset_game_stats: every stat but wins, losses and ties is 0
reset_game_stats(stats) ==
    [TeamStats EXCEPT !.wins = stats.wins, !.losses = stats.losses,
                      !.ties = stats.ties]

\* Team(id, ...): an empty roster and depth chart
EmptyRoster == [roster |-> {}, depth_chart |-> << >>]

\* Team.add_player(player): the roster and depth chart it leaves
add_player(team, player) ==
    LET chart == IF player.position \in DOMAIN team.depth_chart
                 THEN team.depth_chart
                 ELSE Put(team.depth_chart, player.position, << >>)
        listed == \E i \in DOMAIN chart[player.position] :
                      chart[player.position][i] = player.id
    IN  [ roster |-> team.roster \cup {player.id},
          depth_chart |-> IF listed THEN chart
                          ELSE [chart EXCEPT ![player.position] = Append(@, player.id)] ]

\* Team.get_starter(position): the id of the Player, or None
get_starter(team, position) ==
    IF position \in DOMAIN team.depth_chart /\ team.depth_chart[position] # << >>
    THEN IF Head(team.depth_chart[position]) \in team.roster
         THEN Head(team.depth_chart[position])
         ELSE None
    ELSE None

RECURSIVE RosterSum(_, _, _)
\* the sum of player.stats.<field> over the players of a roster
RosterSum(objects, ids, field) ==
    IF ids = {} THEN 0
    ELSE LET id == CHOOSE x \in ids : TRUE
         IN  objects[id].stats[field] + RosterSum(objects, ids \ {id}, field)

\* Team.update_team_stats_from_players: the Team.stats it leaves
update_team_stats_from_players(stats, objects, ids) ==
    LET passing == RosterSum(objects, ids, "passing_yards")
        rushing == RosterSum(objects, ids, "rushing_yards")
    IN  [stats EXCEPT !.passing_yards = passing,
                      !.rushing_yards = rushing,
                      !.sacks = RosterSum(objects, ids, "sacks"),
                      !.interceptions = RosterSum(objects, ids, "interceptions"),
                      !.total_yards = passing + rushing]

\* Team.reset_for_new_game, "Reset all player game stats": every roster
\* player gets an empty stats object
ResetPlayerStats(objects, ids) ==
    [ id \in DOMAIN objects |->
        IF id \in ids THEN [objects[id] EXCEPT !.stats = PlayerStats] ELSE objects[id] ]

\* "for player in team.roster.values(): player.save_game_stats()"
SaveRoster(objects, ids) ==
    [ id \in DOMAIN objects |->
        IF id \in ids THEN save_game_stats(objects[id]) ELSE objects[id] ]

(***************************************************************************)
(* models/game.py: Game.simulate_play, the players' stats                  *)
(***************************************************************************)
\* "player.stats.<field> += delta" for the Player get_starter returned, if any
Credit(objects, id, field, delta) ==
    IF id = None THEN objects
    ELSE [objects EXCEPT ![id].stats[field] = @ + delta]

\* a pass play by the starting QB
CreditPass(objects, qb, receiver, primary_defender, r) ==
    IF r.result = "complete"
    THEN LET thrown == Credit(Credit(Credit(objects, qb, "passing_attempts", 1),
                                     qb, "passing_completions", 1),
                              qb, "passing_yards", r.yards_gained)
             caught == Credit(Credit(Credit(thrown, receiver, "receiving_targets", 1),
                                     receiver, "receiving_catches", 1),
                              receiver, "receiving_yards", r.yards_gained)
             scored == IF r.td_credited
                       THEN Credit(Credit(caught, qb, "passing_tds", 1),
                                   receiver, "receiving_tds", 1)
                       ELSE caught
         IN  Credit(scored, primary_defender, "tackles", 1)
    ELSE LET thrown == Credit(Credit(objects, qb, "passing_attempts", 1),
                              receiver, "receiving_targets", 1)
         IN  IF r.is_interception
             THEN Credit(Credit(thrown, qb, "passing_ints", 1),
                         primary_defender, "interceptions", 1)
             ELSE thrown

\* a run play by the starting RB; recovered is the draw "random.random() > 0.5"
CreditRun(objects, rb, primary_defender, safety, r, recovered) ==
    LET run == Credit(Credit(objects, rb, "rushing_attempts", 1),
                      rb, "rushing_yards", r.yards_gained)
        scored == IF r.td_credited THEN Credit(run, rb, "rushing_tds", 1) ELSE run
        tackled == Credit(scored, primary_defender, "tackles", 1)
        helped == IF r.yards_gained > 5 THEN Credit(tackled, safety, "tackles", 1)
                  ELSE tackled
    IN  IF r.is_fumble
        THEN LET forced == Credit(Credit(helped, rb, "fumbles", 1),
                                  primary_defender, "forced_fumbles", 1)
             IN  IF recovered THEN Credit(forced, primary_defender, "fumble_recoveries", 1)
                 ELSE forced
        ELSE helped

\* the stats Game.simulate_play writes for the play r of offense against
\* defense
CreditPlay(objects, offense, defense, r, recovered) ==
    IF r.play_type = "pass"
    THEN IF get_starter(offense, "QB") = None THEN objects
         ELSE CreditPass(objects, get_starter(offense, "QB"),
                         get_starter(offense, "WR"), get_starter(defense, "CB"), r)
    ELSE IF get_starter(offense, "RB") = None THEN objects
         ELSE CreditRun(objects, get_starter(offense, "RB"),
                        get_starter(defense, "LB"), get_starter(defense, "S"),
                        r, recovered)

\* the draws of "random.random() > 0.5", made when a run is fumbled and a
\* linebacker starts for the defense
RecoveryDraws(defense, r) ==
    IF r.play_type = "run" /\ r.is_fumble /\ get_starter(defense, "LB") # None
    THEN BOOLEAN ELSE {FALSE}

(***************************************************************************)
(* Games between two Teams with rosters: Team.add_player, Game(...) and    *)
(* Game.simulate_game with the players' and the teams' stats.              *)
(***************************************************************************)
\* the Player objects constructed: four starters per team
PlayersConstructed ==
    { Player("NE_QB", home_team, "QB", PlayerStats),
      Player("NE_RB", home_team, "RB", PlayerStats),
      Player("NE_WR", home_team, "WR", PlayerStats),
      Player("NE_CB", home_team, "CB", PlayerStats),
      Player("KC_QB", away_team, "QB", PlayerStats),
      Player("KC_RB", away_team, "RB", PlayerStats),
      Player("KC_WR", away_team, "WR", PlayerStats),
      Player("KC_LB", away_team, "LB", PlayerStats) }

\* the players each Team starts with, in the order they were added
StartingRoster(team_id) ==
    IF team_id = home_team THEN <<"NE_QB", "NE_RB", "NE_WR", "NE_CB">>
    ELSE <<"KC_QB", "KC_RB", "KC_WR", "KC_LB">>

\* the Player object with the id given
PlayerObject(id) == CHOOSE player \in PlayersConstructed : player.id = id

RECURSIVE RosterOf(_)
\* a Team after add_player was called with each player of the list
RosterOf(ids) ==
    IF ids = << >> THEN EmptyRoster
    ELSE add_player(RosterOf(SubSeq(ids, 1, Len(ids) - 1)), PlayerObject(ids[Len(ids)]))

\* the add_player call tried once the starting rosters are built: the home
\* team adds the quarterback of the away team
AddsTried == { <<home_team, "KC_QB">> }

\* team.add_player(player), between games
RosterAddPlayer ==
    /\ gpc \in {"none", "done"}
    /\ \E add \in AddsTried :
          /\ add[2] \notin rosters[add[1]].roster
          /\ rosters' = [rosters EXCEPT
                           ![add[1]] = add_player(@, player_objects[add[2]])]
    /\ UNCHANGED <<player_objects, team_stats, game_summary, games_completed,
                   plays_made>>
    /\ UNCHANGED gvars
    /\ UNCHANGED evars
    /\ UNCHANGED avars

\* what Game.simulate_play reads of the Team with the id given
TeamRead(team_id) ==
    NewTeam(team_id, get_starter(rosters[team_id], "QB") # None,
            get_starter(rosters[team_id], "RB") # None, DefaultPassTendency)

\* the clocks a Game is constructed with: 0:30 or 1:30 left in the 4th quarter
LateGameClocks ==
    { [DefaultGameClock EXCEPT !.quarter = 4, !.minutes = m, !.seconds = 30]
      : m \in {0, 1} }

\* Game(home_team, away_team, clock): __post_init__ gives the home team the
\* ball and resets both teams (prepare_for_game sets game_status and
\* confidence, which are not followed).  A Game can be constructed while the
\* Game before it is still being played.
RosterNewGame ==
    /\ gpc \in {"none", "loop", "done"}
    /\ LET home == home_team
           away == away_team
       IN /\ teams' = [home |-> TeamRead(home), away |-> TeamRead(away)]
          /\ state' = NewGameState(home)
          /\ player_objects' =
                 ResetPlayerStats(ResetPlayerStats(player_objects, rosters[home].roster),
                                  rosters[away].roster)
          /\ team_stats' = [t \in DOMAIN team_stats |-> reset_game_stats(team_stats[t])]
    /\ clock' \in LateGameClocks
    /\ result' = NoResult
    /\ gpc' = "new"
    /\ UNCHANGED <<rosters, game_summary, games_completed, plays_made>>
    /\ UNCHANGED evars
    /\ UNCHANGED avars

\* one iteration of the loop of Game.simulate_game, with the stats
\* simulate_play writes on the players
RosterGamePlay ==
    /\ gpc = "loop"
    /\ ~is_game_over(clock)
    /\ plays_made < MaxRosterPlays
    /\ LET offense == teams[get_possession_team(teams, state)]
           defense == teams[get_defense_team(teams, state)]
       IN  \E r \in PlayResults(offense, state) :
              \E recovered \in RecoveryDraws(rosters[defense.id], r) :
                 /\ result' = r
                 /\ clock' = EndOfQuarterCheck(
                                 IF ClockRuns(r) THEN advance(clock, time_elapsed)
                                 ELSE clock)
                 /\ state' = UpdateGameState(teams, state, r)
                 /\ player_objects' = CreditPlay(player_objects, rosters[offense.id],
                                                 rosters[defense.id], r, recovered)
    /\ plays_made' = plays_made + 1
    /\ UNCHANGED <<teams, gpc>>
    /\ UNCHANGED <<rosters, team_stats, game_summary, games_completed>>
    /\ UNCHANGED evars
    /\ UNCHANGED avars

ResultCountedTieToHome(stats, home, away, st) ==
    IF st.home_score >= st.away_score
    THEN [stats EXCEPT ![home].wins = @ + 1, ![away].losses = @ + 1]
    ELSE [stats EXCEPT ![away].wins = @ + 1, ![home].losses = @ + 1]

\* "Game over - process results": the result counters of both teams
ResultCounted(stats, home, away, st) ==
    IF st.home_score > st.away_score
    THEN [stats EXCEPT ![home].wins = @ + 1, ![away].losses = @ + 1]
    ELSE IF st.away_score > st.home_score
    THEN [stats EXCEPT ![away].wins = @ + 1, ![home].losses = @ + 1]
    ELSE [stats EXCEPT ![home].ties = @ + 1, ![away].ties = @ + 1]

\* the *_stats entry of the summary for a Team.stats
SummaryStats(stats) ==
    [ total_yards |-> stats.total_yards, passing_yards |-> stats.passing_yards,
      rushing_yards |-> stats.rushing_yards, turnovers |-> stats.turnovers,
      time_of_possession |-> stats.time_of_possession,
      first_downs |-> stats.first_downs ]

\* the rest of Game.simulate_game once the loop has exited: the result
\* counters, the team stats from the players, the players' stats saved, and
\* the summary returned (the teams by id; plays and the per-player lists
\* left out)
RosterGameFinish ==
    /\ gpc = "loop"
    /\ is_game_over(clock)
    /\ LET home == teams.home.id
           away == teams.away.id
           counted == ResultCounted(team_stats, home, away, state)
           summed == [ counted EXCEPT
                         ![home] = update_team_stats_from_players(
                                       @, player_objects, rosters[home].roster),
                         ![away] = update_team_stats_from_players(
                                       @, player_objects, rosters[away].roster) ]
       IN  /\ team_stats' = summed
           /\ player_objects' = SaveRoster(SaveRoster(player_objects, rosters[home].roster),
                                           rosters[away].roster)
           /\ game_summary' =
                  [ kind |-> "game", home_team |-> home, away_team |-> away,
                    home_score |-> state.home_score, away_score |-> state.away_score,
                    winner |-> IF state.home_score > state.away_score THEN home
                               ELSE IF state.away_score > state.home_score THEN away
                               ELSE "Tie",
                    home_stats |-> SummaryStats(summed[home]),
                    away_stats |-> SummaryStats(summed[away]) ]
           /\ games_completed' = [games_completed EXCEPT ![home] = @ + 1,
                                                         ![away] = @ + 1]
    /\ gpc' = "done"
    /\ UNCHANGED <<teams, clock, state, result>>
    /\ UNCHANGED <<rosters, plays_made>>
    /\ UNCHANGED evars
    /\ UNCHANGED avars

NextRoster ==
    \/ RosterAddPlayer
    \/ RosterNewGame
    \/ GameStart
    \/ RosterGamePlay
    \/ RosterGameFinish

\* two Teams with their starting rosters, and no Game yet
InitRoster ==
    /\ player_objects = [id \in {player.id : player \in PlayersConstructed} |->
                             PlayerObject(id)]
    /\ rosters = [t \in {home_team, away_team} |-> RosterOf(StartingRoster(t))]
    /\ team_stats = [t \in {home_team, away_team} |-> TeamStats]
    /\ game_summary = NoSummary
    /\ games_completed = [t \in {home_team, away_team} |-> 0]
    /\ plays_made = 0
    /\ teams = [home |-> DefaultTeam(home_team), away |-> DefaultTeam(away_team)]
    /\ clock = DefaultGameClock
    /\ state = NewGameState(home_team)
    /\ result = NoResult
    /\ gpc = "none"
    /\ EngineIdle
    /\ NoCallMade

SpecRoster == InitRoster /\ [][NextRoster]_vars

(***************************************************************************)
(* A GameClock on its own: it is started once, as Game.simulate_game does, *)
(* and advanced.                                                           *)
(***************************************************************************)
\* the quarter lengths of the clocks constructed, in minutes
ClockQuarterLengths == (1 .. MaxClockQuarterLength) \cup {DefaultGameClock.quarter_length}

\* the seconds_elapsed advance is called with: none, a second, a play, up to
\* and past a minute, past two one-minute quarters, past two default quarters
SecondsTried == {0, 1, 30, 59, 60, 61, 125, 1830}

\* clock.start()
ClockStart ==
    /\ gpc = "new"
    /\ clock' = start(clock)
    /\ gpc' = "loop"
    /\ UNCHANGED <<teams, state, result>>
    /\ UNCHANGED evars
    /\ UNCHANGED avars
    /\ UNCHANGED ovars

\* clock.advance(seconds_elapsed)
ClockAdvance ==
    /\ \E seconds_elapsed \in SecondsTried : clock' = advance(clock, seconds_elapsed)
    /\ UNCHANGED <<teams, state, result, gpc>>
    /\ UNCHANGED evars
    /\ UNCHANGED avars
    /\ UNCHANGED ovars

NextClock == ClockStart \/ ClockAdvance

\* a GameClock just constructed
InitClock ==
    /\ \E ql \in ClockQuarterLengths : clock = NewGameClock(ql)
    /\ teams = [home |-> DefaultTeam(home_team), away |-> DefaultTeam(away_team)]
    /\ state = NewGameState(home_team)
    /\ result = NoResult
    /\ gpc = "new"
    /\ EngineIdle
    /\ NoCallMade
    /\ NoObjects

SpecClock == InitClock /\ [][NextClock]_vars

(***************************************************************************)
(* A GameState on its own: its methods are called in any order.            *)
(***************************************************************************)
\* GameState(...): every field of the dataclass that a method reads or
\* writes, with the score, possession and timeouts given
FullGameState(home_score, away_score, possession, timeouts) ==
    [ home_score |-> home_score, away_score |-> away_score,
      possession |-> possession, down |-> 1, distance |-> 10,
      field_position |-> 20, is_redzone |-> FALSE,
      home_timeouts |-> timeouts, away_timeouts |-> timeouts,
      play_history |-> << >> ]

\* the GameStates constructed: the default one, and one with a score and a
\* timeout used, with possession as Game and as change_possession write it
GameStatesTried ==
    { FullGameState(0, 0, p, 3) : p \in {"home", home_team} }
        \cup { FullGameState(7, 3, "home", 1) }

\* the yards_gained arguments tried: a loss, a short gain and a long one
StateYardsTried == {-2, 6, 30}

\* state.change_possession()
StateChangePossession ==
    /\ state' = change_possession(state)
    /\ returned' = [kind |-> "change_possession", before |-> state]
    /\ UNCHANGED <<teams, clock, result, gpc>>
    /\ UNCHANGED <<call, team_objects, all_results, all_player_stats, standings>>
    /\ UNCHANGED evars
    /\ UNCHANGED ovars

\* state.update_field_position(yards_gained)
StateUpdateFieldPosition ==
    /\ \E yards_gained \in StateYardsTried :
          /\ state.field_position + yards_gained >= 20 - MaxYardsLost
          /\ state' = update_field_position(state, yards_gained)
          /\ returned' = [kind |-> "update_field_position", before |-> state]
    /\ UNCHANGED <<teams, clock, result, gpc>>
    /\ UNCHANGED <<call, team_objects, all_results, all_player_stats, standings>>
    /\ UNCHANGED evars
    /\ UNCHANGED ovars

\* state.update_down_and_distance(yards_gained), on one of the four downs
StateUpdateDownAndDistance ==
    /\ state.down <= 4
    /\ \E yards_gained \in StateYardsTried :
          /\ state' = update_down_and_distance(state, yards_gained)
          /\ returned' = [kind |-> "update_down_and_distance", before |-> state]
    /\ UNCHANGED <<teams, clock, result, gpc>>
    /\ UNCHANGED <<call, team_objects, all_results, all_player_stats, standings>>
    /\ UNCHANGED evars
    /\ UNCHANGED ovars

\* state.add_play_to_history(play_data)
StateAddPlay ==
    /\ Len(state.play_history) < MaxHistory
    /\ state' = [state EXCEPT !.play_history = Append(@, NoResult)]
    /\ returned' = [kind |-> "add_play_to_history", before |-> state]
    /\ UNCHANGED <<teams, clock, result, gpc>>
    /\ UNCHANGED <<call, team_objects, all_results, all_player_stats, standings>>
    /\ UNCHANGED evars
    /\ UNCHANGED ovars

NextState ==
    \/ StateChangePossession
    \/ StateUpdateFieldPosition
    \/ StateUpdateDownAndDistance
    \/ StateAddPlay

\* a GameState just constructed
InitState ==
    /\ state \in GameStatesTried
    /\ teams = [home |-> DefaultTeam(home_team), away |-> DefaultTeam(away_team)]
    /\ clock = DefaultGameClock
    /\ result = NoResult
    /\ gpc = "none"
    /\ EngineIdle
    /\ NoCallMade
    /\ NoObjects

SpecState == InitState /\ [][NextState]_vars

(***************************************************************************)
(* Properties of the play loop of simulation/engine.py.                    *)
(***************************************************************************)
\* the last play was a pass or a run
ScrimmagePlayed == play_result.play_type \in {"pass", "run"}

\* the last play changed possession without scoring a touchdown
PossessionChanged == play_result.possession_change /\ ~play_result.touchdown

\* the last play was a pass or run that neither scored nor changed possession
NormalPlayed ==
    ScrimmagePlayed /\ ~play_result.touchdown /\ ~play_result.possession_change

\* C1: at the start of every play and after every process_play_result the
\* field position lies between 0 and 100.
C1_FieldPositionInRange ==
    0 <= game.field_position /\ game.field_position <= 100

\* C2: at the start of every play and after every process_play_result the
\* distance to the first down lies between 1 and 100.
C2_YardsToFirstInRange ==
    1 <= game.yards_to_first /\ game.yards_to_first <= 100

\* a third loss of five yards in a row has left 4th and 25
C2_Witness ==
    /\ ScrimmagePlayed
    /\ play_result.yards_gained = -5
    /\ game.current_down = 4
    /\ game.yards_to_first = 25

\* C3: a pass or run is a touchdown exactly when the field position plus the
\* yards the provider drew reaches 100, and the recorded yards_gained of a
\* touchdown ends exactly on the goal line.
C3_TouchdownIffReachesGoal ==
    ScrimmagePlayed =>
        /\ play_result.touchdown
             <=> (play_result.field_position + play_result.yards_drawn >= 100)
        /\ play_result.touchdown
             => play_result.field_position + play_result.yards_gained = 100

\* a touchdown whose drawn yards overshot the goal line and were cut back
C3_Witness ==
    /\ ScrimmagePlayed
    /\ play_result.touchdown
    /\ play_result.yards_drawn > play_result.yards_gained
    /\ play_result.field_position + play_result.yards_gained = 100

\* C4: no play is both a touchdown and a turnover.
C4_TouchdownNeverTurnover ==
    play_result.touchdown =>
        /\ ~play_result.possession_change
        /\ play_result.turnover_type = "none"
        /\ play_result.result = "touchdown"

\* a touchdown pass has been played
C4_Witness ==
    /\ play_result.touchdown
    /\ play_result.result = "touchdown"
    /\ play_result.play_type = "pass"
    /\ play_count > 0

\* C5: a touchdown gives 7 points to the team that had the ball and nothing
\* to the other, hands the ball over, and sets 1st and 10 at the 25.
C5_AfterTouchdown ==
    [][ (play_count' = play_count + 1 /\ play_result'.touchdown) =>
          /\ game'.home_score = game.home_score
                + (IF game.current_possession = home_team THEN 7 ELSE 0)
          /\ game'.away_score = game.away_score
                + (IF game.current_possession = away_team THEN 7 ELSE 0)
          /\ game'.current_possession # game.current_possession
          /\ game'.current_possession \in {home_team, away_team}
          /\ game'.field_position = 25
          /\ game'.current_down = 1
          /\ game'.yards_to_first = 10 ]_vars

\* the away team has scored a touchdown and the home team has the ball at its 25
C5_Witness ==
    /\ play_result.touchdown
    /\ play_result.offense = away_team
    /\ game.away_score = 7
    /\ game.home_score = 0
    /\ game.current_possession = home_team
    /\ game.field_position = 25

\* C6: after a possession change that is no touchdown the new field position
\* is 100 minus the old one, raised to 20 when the mirror is below 20, and it
\* is 1st and 10.
C6_MirrorFlooredAt20 ==
    PossessionChanged =>
        /\ game.field_position = Max(20, 100 - play_result.field_position)
        /\ game.current_down = 1
        /\ game.yards_to_first = 10

\* C9: after a play that neither scores nor changes possession the field
\* position has moved by yards_gained; a gain of at least the distance gives
\* 1st down and min(10, 100 - field position) to go, anything less gives the
\* next down and the distance less the gain.
C9_NormalPlay ==
    NormalPlayed =>
        /\ game.field_position = play_result.field_position + play_result.yards_gained
        /\ IF play_result.yards_gained >= play_result.distance
           THEN /\ game.current_down = 1
                /\ game.yards_to_first = Min(10, 100 - game.field_position)
           ELSE /\ game.current_down = play_result.down + 1
                /\ game.yards_to_first = play_result.distance - play_result.yards_gained

\* 1st and 10 at the 20, a gain of 12: 1st and 10 at the 32
C9_Witness ==
    /\ NormalPlayed
    /\ play_result.down = 1
    /\ play_result.distance = 10
    /\ play_result.field_position = 20
    /\ play_result.yards_gained = 12
    /\ game.current_down = 1
    /\ game.yards_to_first = 10
    /\ game.field_position = 32

\* C7: simulate_game stops after at most 150 plays whatever the time between
\* plays, zero and negative included: total_plays never passes 150, no play
\* follows the 150th, and the loop that cannot play exits.
C7_PlayCap ==
    /\ play_count <= 150
    /\ (pc = "loop" /\ play_count = 150) => ~ENABLED Play
    /\ pc = "loop" => ENABLED Next

\* a game whose clock runs backwards has ended on the 150th play
C7_Witness ==
    /\ pc = "done"
    /\ play_count = 150
    /\ parameters.time_between_plays < 0
    /\ game.game_clock > 3600

\* 4th and 1 at the 65, as simulate_play reads it
FourthAndOneAt65 ==
    [ NewGame(home_team, [quarters |-> 4, quarter_length |-> 15])
        EXCEPT !.current_down = 4, !.yards_to_first = 1, !.field_position = 65 ]

\* C10: a 4th-down play is a field goal from the 60 on and a punt before it,
\* whatever the distance; passes and runs happen on downs 1 to 3 only; 4th and
\* 1 at the 65 is a field-goal attempt that succeeds below 0.39.
C10_FourthDown ==
    /\ play_result.down = 4 =>
          play_result.play_type =
              IF play_result.field_position >= 60 THEN "field_goal" ELSE "punt"
    /\ ScrimmagePlayed => play_result.down \in 1..3
    /\ play_result.play_type \in {"field_goal", "punt"} => play_result.down = 4
    /\ \A pr \in simulate_play(FourthAndOneAt65, data_provider) :
          pr.play_type = "field_goal"
    /\ FieldGoalThreshold(65) = 39

\* field goals have been tried on 4th down from the 60 and from beyond it
C10_Witness ==
    /\ play_result.down = 4
    /\ play_result.field_position = 60
    /\ play_result.play_type = "field_goal"
    /\ play_result.result = "field_goal_good"

\* C11: a made field goal adds exactly 3 points to the team that had the ball
\* when it was kicked and nothing to the other team, a missed one changes
\* neither score, and either way the ball goes to the other team.
C11_FieldGoal ==
    [][ (play_count' = play_count + 1 /\ play_result'.play_type = "field_goal") =>
          LET made == play_result'.result = "field_goal_good"
          IN  /\ play_result'.result \in {"field_goal_good", "field_goal_missed"}
              /\ game'.home_score = game.home_score
                    + (IF made /\ game.current_possession = home_team THEN 3 ELSE 0)
              /\ game'.away_score = game.away_score
                    + (IF made /\ game.current_possession = away_team THEN 3 ELSE 0)
              /\ game'.current_possession # game.current_possession
              /\ game'.current_possession \in {home_team, away_team} ]_vars

\* the away team has made a field goal and the home team has the ball
C11_Witness ==
    /\ play_result.play_type = "field_goal"
    /\ play_result.result = "field_goal_good"
    /\ play_result.offense = away_team
    /\ game.away_score = 3
    /\ game.home_score = 0
    /\ game.current_possession = home_team

\* the home team has missed a field goal: no points, the away team has the ball
C11_WitnessMissed ==
    /\ play_result.play_type = "field_goal"
    /\ play_result.result = "field_goal_missed"
    /\ play_result.offense = home_team
    /\ game.home_score = 0
    /\ game.away_score = 0
    /\ game.current_possession = away_team

\* C12: after a punt the ball has changed hands and the receiving team's
\* field position is min(95, 100 - (100 - old field position + punt
\* distance)), for the punt distance in 35..50 recorded on the play.
C12_PuntFieldPosition ==
    play_result.play_type = "punt" =>
        /\ play_result.punt_distance \in 35..50
        /\ game.current_possession # play_result.offense
        /\ game.field_position
             = new_position(play_result.field_position, play_result.punt_distance)

(***************************************************************************)
(* Properties of the calls on the engine.                                  *)
(***************************************************************************)
\* C16: simulate_game called with a home or away id that resolves to no Team
\* raises the invalid-team error before any Game is constructed: no team
\* stats are reset, no player stats change, no play is simulated and nothing
\* is returned.
C16_InvalidTeamRaises ==
    [][ ( /\ call.status = "idle"
          /\ call'.op = "simulate_game"
          /\ \/ call'.home_team \notin DefaultTeamIds
             \/ call'.away_team \notin DefaultTeamIds )
        => /\ call'.status = "raised"
           /\ call'.error = "ValueError"
           /\ team_objects' = team_objects
           /\ returned' = NoReturn
           /\ UNCHANGED <<game, play_count, play_result, pc,
                          all_results, all_player_stats>> ]_vars

\* simulate_game("NE", "XX") has raised and the home team, which had played,
\* still has its stats
C16_Witness ==
    /\ call.op = "simulate_game"
    /\ call.status = "raised"
    /\ call.error = "ValueError"
    /\ call.home_team = home_team
    /\ call.away_team = UnknownTeamId
    /\ team_objects[home_team] = PlayedTeam
    /\ returned = NoReturn

\* an id of the schedule resolves to no Team: it is neither the id of a team
\* of the teams argument nor registered with the engine
SomeIdUnresolved ==
    \E i \in DOMAIN call.schedule : \E side \in 1..2 :
        /\ call.schedule[i][side] \notin {call.teams[j] : j \in DOMAIN call.teams}
        /\ call.schedule[i][side] \notin DefaultTeamIds

\* C17: simulate_season fails with the invalid-team error, returning no
\* standings, exactly when some schedule entry has an id that resolves to no
\* known Team; a schedule in which every id resolves, in the teams argument
\* or in the engine's registry, runs to completion and returns standings.
C17_SeasonFailsIffUnresolved ==
    (call.op = "simulate_season" /\ call.status # "running") =>
        /\ SomeIdUnresolved <=> (call.status = "raised" /\ call.error = "ValueError")
        /\ call.status = "raised" => returned = NoReturn
        /\ ~SomeIdUnresolved =>
              /\ call.status = "returned"
              /\ returned.kind = "season"
              /\ Len(returned.games) = Len(call.schedule)

\* C18: for every n >= 1 the summary of simulate_multiple_games(home, away, n)
\* has home wins + away wins + ties = n, each count in 0..n, and games holds
\* exactly n results.
C18_CountsSumToGames ==
    returned.kind = "batch" =>
        LET n == call.num_games
            summary == returned.summary
        IN  /\ n >= 1
            /\ summary.num_games = n
            /\ summary.home_team.wins + summary.away_team.wins + summary.ties = n
            /\ summary.home_team.wins \in 0..n
            /\ summary.away_team.wins \in 0..n
            /\ summary.ties \in 0..n
            /\ Len(returned.games) = n

\* two games: one won by the away team, one tied
C18_Witness ==
    /\ returned.kind = "batch"
    /\ call.num_games = 2
    /\ Len(returned.games) = 2
    /\ returned.summary.home_team.wins = 0
    /\ returned.summary.away_team.wins = 1
    /\ returned.summary.ties = 1

\* the values of a stat key of a player over the games returned
GameValues(player_id, key) ==
    [i \in DOMAIN returned.games |->
        Get(returned.games[i].player_stats[player_id].stats, key)]

\* C19: for every player and every tracked stat key the projection over n
\* games has games_played = n, the total equal to the sum of the stat over
\* the n per-game stat maps, min and max equal to the smallest and largest
\* per-game value, n * min <= total <= n * max, and the cumulative value kept
\* in all_player_stats equals the same sum.
C19_ProjectionTotals ==
    returned.kind = "batch" =>
        LET n == call.num_games
            projections == returned.summary.player_projections
        IN  /\ DOMAIN projections
                 = UNION {DOMAIN returned.games[i].player_stats : i \in DOMAIN returned.games}
            /\ \A player_id \in DOMAIN projections :
                  LET proj == projections[player_id]
                  IN  /\ proj.games_played = n
                      /\ \A key \in DOMAIN proj.total :
                            LET values == GameValues(player_id, key)
                            IN  /\ proj.total[key] = SumOf(values)
                                /\ \E i \in 1..n : proj.min[key] = values[i]
                                /\ \E i \in 1..n : proj.max[key] = values[i]
                                /\ \A i \in 1..n : /\ proj.min[key] <= values[i]
                                                   /\ values[i] <= proj.max[key]
                                /\ n * proj.min[key] <= proj.total[key]
                                /\ proj.total[key] <= n * proj.max[key]
                                /\ all_player_stats[player_id].stats[key] = SumOf(values)

\* two games, in the second of which the home quarterback threw a 75-yard
\* touchdown pass
C19_Witness ==
    /\ returned.kind = "batch"
    /\ call.num_games = 2
    /\ returned.games[1].player_stats["NE_QB1"].stats["pass_tds"] = 0
    /\ returned.games[2].player_stats["NE_QB1"].stats["pass_tds"] = 1
    /\ returned.summary.player_projections["NE_QB1"].games_played = 2
    /\ returned.summary.player_projections["NE_QB1"].total["pass_tds"] = 1
    /\ returned.summary.player_projections["NE_QB1"].min["pass_tds"] = 0
    /\ returned.summary.player_projections["NE_QB1"].max["pass_tds"] = 1
    /\ returned.summary.player_projections["NE_QB1"].total["pass_yards"] = 75
    /\ all_player_stats["NE_QB1"].stats["pass_yards"] = 75

\* the summary simulate_multiple_games compiles when the games returned come
\* in the order order[1], order[2], ...
SummaryInOrder(order) ==
    LET reordered == [i \in DOMAIN returned.games |-> returned.games[order[i]]]
    IN  Summary(reordered, AggregateAll(reordered),
                call.home_team, call.away_team, call.num_games)

\* of a summary, what the order of the games must not change: the win and
\* tie counts, and every player's per-stat totals, minima and maxima
OrderFree(summary) ==
    [ home_wins |-> summary.home_team.wins,
      away_wins |-> summary.away_team.wins,
      ties |-> summary.ties,
      stats |-> [ player_id \in DOMAIN summary.player_projections |->
                    [ total |-> summary.player_projections[player_id].total,
                      min |-> summary.player_projections[player_id].min,
                      max |-> summary.player_projections[player_id].max ] ] ]

\* C20: the aggregation of simulate_multiple_games is order-independent: for
\* any permutation of the same n game results the win and tie counts and
\* every player's per-stat total, min and max are identical.
C20_OrderIndependent ==
    returned.kind = "batch" =>
        LET reference == OrderFree(returned.summary)
        IN  \A order \in Permutations(DOMAIN returned.games) :
                OrderFree(SummaryInOrder(order)) = reference

\* two games of which the home team won the first only, and in which the
\* home running back ran in the second only
C20_Witness ==
    /\ returned.kind = "batch"
    /\ call.num_games = 2
    /\ returned.games[1].home_team.score = 7
    /\ returned.games[2].home_team.score = 0
    /\ returned.games[1].player_stats["NE_RB1"].stats["rush_attempts"] = 0
    /\ returned.games[2].player_stats["NE_RB1"].stats["rush_attempts"] = 1
    /\ returned.summary.home_team.wins = 1
    /\ returned.summary.player_projections["NE_RB1"].min["rush_attempts"] = 0
    /\ returned.summary.player_projections["NE_RB1"].max["rush_attempts"] = 1

\* every term of the engine's scoring applied to a stats dict, whatever the
\* position: passing, rushing, receiving (a reception worth 0.5),
\* interceptions and fumbles
EveryTerm(st) ==
    4 * Get(st.stats, "pass_yards") + 400 * Get(st.stats, "pass_tds")
        - 200 * Get(st.stats, "interceptions")
        + 10 * Get(st.stats, "rush_yards") + 600 * Get(st.stats, "rush_tds")
        + 10 * Get(st.stats, "receiving_yards") + 600 * Get(st.stats, "receiving_tds")
        + 50 * Get(st.stats, "receptions")
        - 200 * Get(st.stats, "fumbles")

\* C23: the fantasy points simulate_game reports for a player apply every
\* term of the scoring to the stats recorded for that player in the game,
\* whatever the position: each fumble recorded for a player, a quarterback
\* charged with one on a run included, lowers the points by 2, and each
\* interception by 2.
C23_EveryTermApplied ==
    returned.kind = "game" =>
        \A id \in DOMAIN returned.value.player_stats :
            returned.value.fantasy_points[id] =
                EveryTerm(returned.value.player_stats[id])

\* the point differential of a standings entry
Differential(entry) == entry.points_for - entry.points_against

ChangesPossession(st, r) ==
    \/ r.is_interception
    \/ r.is_fumble
    \/ r.is_touchdown
    \/ update_down_and_distance(
           update_field_position(st, r.yards_gained), r.yards_gained).down > 4

\* C13: state.possession always holds the id of the home or of the away team,
\* and every possession change makes get_possession_team() return the team
\* that was on defense before the change.
C13_PossessionAlternates ==
    [][ (gpc = "loop" /\ gpc' = "loop") =>
          /\ state'.possession \in {teams.home.id, teams.away.id}
          /\ ChangesPossession(state, result') =>
                get_possession_team(teams, state') = get_defense_team(teams, state) ]_vars

\* C14: every play of Game.simulate_play that credits a touchdown to a player
\* (passing_tds and receiving_tds, or rushing_tds) adds exactly 7 points to the
\* score of the team in possession and nothing to the other, then flips
\* possession, and is never also ruled a fumble or an interception.
C14_TouchdownScoresSeven ==
    [][ (gpc = "loop" /\ gpc' = "loop" /\ result'.td_credited) =>
          LET offense == get_possession_team(teams, state)
          IN  /\ state'.home_score = state.home_score
                    + (IF offense = "home" THEN 7 ELSE 0)
              /\ state'.away_score = state.away_score
                    + (IF offense = "away" THEN 7 ELSE 0)
              /\ get_possession_team(teams, state') # offense
              /\ ~result'.is_fumble
              /\ ~result'.is_interception ]_vars

\* C15: in every state of Game.simulate_game, before and after each
\* simulate_play, 0 <= state.field_position <= 100 and
\* 1 <= state.distance <= 100.
C15_GameStateInRange ==
    /\ 0 <= state.field_position
    /\ state.field_position <= 100
    /\ 1 <= state.distance
    /\ state.distance <= 100

\* C8: Game.simulate_game terminates whatever the plays and the rosters, and
\* its loop exits with quarter > 4 and the clock stopped at 0:00.
C8_GameTerminates ==
    <>( /\ gpc = "done"
        /\ clock.quarter > 4
        /\ clock.minutes = 0
        /\ clock.seconds = 0
        /\ ~clock.is_running )

(***************************************************************************)
(* Properties of GameClock.                                                *)
(***************************************************************************)
\* the fields of the clock are in their ranges, and a clock whose game is
\* over is stopped at 0:00
ClockInRange ==
    /\ 0 <= clock.seconds /\ clock.seconds < 60
    /\ 0 <= clock.minutes /\ clock.minutes <= clock.quarter_length
    /\ 1 <= clock.quarter /\ clock.quarter <= 5
    /\ is_game_over(clock) =>
          (clock.minutes = 0 /\ clock.seconds = 0 /\ ~clock.is_running)

\* C24: after any sequence of advance calls with non-negative arguments from
\* the initial clock, 0 <= seconds < 60, 0 <= minutes <= quarter_length and
\* 1 <= quarter <= 5; once is_game_over() is true the clock is stopped at
\* 0:00 and every further advance leaves quarter, minutes and seconds
\* unchanged.
C24_ClockRanges ==
    /\ []ClockInRange
    /\ [][is_game_over(clock) =>
             /\ clock'.quarter = clock.quarter
             /\ clock'.minutes = clock.minutes
             /\ clock'.seconds = clock.seconds]_vars

\* the default clock has been advanced to the end of the game
C24_Witness ==
    /\ is_game_over(clock)
    /\ clock.quarter_length = 15
    /\ clock.quarter = 5
    /\ gpc = "loop"

\* C25: for a running clock with time_remaining() = T and any s with
\* 0 <= s < T, advance(s) yields time_remaining() = T - s, also when s
\* crosses one or several quarter boundaries.
C25_AdvanceSubtracts ==
    [][\A s \in SecondsTried :
          (/\ clock.is_running
           /\ s < time_remaining(clock)
           /\ clock' = advance(clock, s))
          => time_remaining(clock') = time_remaining(clock) - s]_vars

\* the default clock in its third quarter at 14:30, where advance(1830)
\* takes it from the kickoff across two quarter boundaries
C25_Witness ==
    /\ clock.is_running
    /\ clock.quarter_length = 15
    /\ clock.quarter = 3
    /\ clock.minutes = 14
    /\ clock.seconds = 30
    /\ time_remaining(clock) = 3600 - 1830

(***************************************************************************)
(* Properties of the Player and Team objects.                              *)
(***************************************************************************)
\* the points of the standard system for the stats s, in hundredths
StandardPoints(s) ==
    4 * s.passing_yards + 400 * s.passing_tds - 200 * s.passing_ints
        + 10 * (s.rushing_yards + s.receiving_yards)
        + 600 * (s.rushing_tds + s.receiving_tds) - 200 * s.fumbles

\* C22: PlayerStats.calculate_fantasy_points under the standard system
\* returns, in hundredths, 4 x passing_yards + 400 x passing_tds
\* - 200 x passing_ints + 10 x (rushing_yards + receiving_yards)
\* + 600 x (rushing_tds + receiving_tds) - 200 x fumbles, receptions being
\* worth 0: 0 for all-zero stats, and 22.0 for 300 passing yards, 3 passing
\* touchdowns and 1 interception.
C22_StandardFantasyPoints ==
    /\ (returned.kind = "fantasy_points" /\ returned.scoring_system = "standard") =>
          /\ returned.points = StandardPoints(returned.stats)
          /\ returned.stats = PlayerStats => returned.points = 0
          /\ returned.stats = [PlayerStats EXCEPT !.passing_yards = 300,
                                                  !.passing_tds = 3,
                                                  !.passing_ints = 1]
                 => returned.points = 2200
    /\ \A id \in DOMAIN player_objects :
          \A i \in DOMAIN player_objects[id].fantasy_points_history :
              player_objects[id].fantasy_points_history[i] =
                  StandardPoints(player_objects[id].historical_stats[i])

\* the standard points of 300 passing yards, 3 passing touchdowns and 1
\* interception were asked for
C22_Witness ==
    /\ returned.kind = "fantasy_points"
    /\ returned.scoring_system = "standard"
    /\ returned.stats.passing_yards = 300
    /\ returned.stats.passing_tds = 3
    /\ returned.stats.passing_ints = 1
    /\ returned.stats.rushing_yards = 0
    /\ returned.stats.receiving_catches = 0
    /\ returned.stats.receiving_yards = 0
    /\ returned.stats.rushing_tds = 0
    /\ returned.stats.fumbles = 0
    /\ returned.points = 2200

\* the standard points of stats with receptions were asked for
C22_WitnessReceptions ==
    /\ returned.kind = "fantasy_points"
    /\ returned.scoring_system = "standard"
    /\ returned.stats.receiving_catches = 4
    /\ returned.stats.receiving_yards = 12
    /\ returned.stats.rushing_yards = -3
    /\ returned.stats.fumbles = 1
    /\ returned.stats.passing_yards = 7
    /\ returned.stats.passing_tds = 0
    /\ returned.stats.passing_ints = 0
    /\ returned.stats.rushing_tds = 0
    /\ returned.points = -82

\* the players of either roster of the Game being played
GamePlayers == rosters[teams.home.id].roster \cup rosters[teams.away.id].roster

\* the step that ends Game.simulate_game
GameCompletes == gpc = "loop" /\ gpc' = "done"

\* C26: Player.save_game_stats appends one snapshot equal to the live stats
\* to historical_stats, leaves the earlier entries as they were and resets
\* every live stat to zero; no later step alters a stored snapshot, the two
\* histories always have the same length, and Game.simulate_game leaves
\* every roster player of both teams with all-zero live stats and exactly
\* one more history entry, the stats the player had when the game ended.
C26_SnapshotAndReset ==
    [][ \A id \in DOMAIN player_objects :
          LET before == player_objects[id]
              after == player_objects'[id]
              saved == Len(before.historical_stats)
          IN  /\ Len(after.historical_stats) >= saved
              /\ SubSeq(after.historical_stats, 1, saved) = before.historical_stats
              /\ Len(after.fantasy_points_history) = Len(after.historical_stats)
              /\ (GameCompletes /\ id \in GamePlayers) =>
                    /\ after.stats = PlayerStats
                    /\ Len(after.historical_stats) = saved + 1
                    /\ after.historical_stats[saved + 1] = before.stats
              /\ (GameCompletes /\ id \notin GamePlayers) => after = before ]_vars

\* C29: after any sequence of Team.add_player calls, the team field of every
\* player in a Team's roster is the id of that Team.
C29_RosterPlayersOfTheTeam ==
    \A team_id \in DOMAIN rosters :
        \A id \in rosters[team_id].roster :
            player_objects[id].team = team_id

\* the result counters of a Team
Counters(stats) == <<stats.wins, stats.losses, stats.ties>>

\* C27: each completed Game.simulate_game adds one to exactly one result
\* counter of each team, as the final score says: home wins and away losses
\* when the home score is higher, away wins and home losses when the away
\* score is higher, ties of both when the scores are equal; no other step,
\* the reset for a new game included, changes a counter, and a team's wins,
\* losses and ties add up to the number of games it has completed.
C27_ResultCounters ==
    /\ [](\A t \in DOMAIN team_stats :
              team_stats[t].wins + team_stats[t].losses + team_stats[t].ties
                  = games_completed[t])
    /\ [][ LET home == teams.home.id
               away == teams.away.id
               was(t) == Counters(team_stats[t])
               now(t) == Counters(team_stats'[t])
               added(t, w, l, d) ==
                   now(t) = <<was(t)[1] + w, was(t)[2] + l, was(t)[3] + d>>
           IN  IF GameCompletes
               THEN /\ state.home_score > state.away_score =>
                          added(home, 1, 0, 0) /\ added(away, 0, 1, 0)
                    /\ state.away_score > state.home_score =>
                          added(home, 0, 1, 0) /\ added(away, 1, 0, 0)
                    /\ state.home_score = state.away_score =>
                          added(home, 0, 0, 1) /\ added(away, 0, 0, 1)
               ELSE \A t \in DOMAIN team_stats : now(t) = was(t) ]_vars

\* two games were completed: one was tied and the away team won the other
C27_Witness ==
    /\ gpc = "done"
    /\ games_completed[home_team] = 2
    /\ games_completed[away_team] = 2
    /\ Counters(team_stats[home_team]) = <<0, 1, 1>>
    /\ Counters(team_stats[away_team]) = <<1, 0, 1>>

\* what the summary is to say of a Team whose roster is ids, by the stats its
\* players have when the game ends
SummaryAgrees(stats, ids) ==
    /\ stats.passing_yards = RosterSum(player_objects, ids, "passing_yards")
    /\ stats.rushing_yards = RosterSum(player_objects, ids, "rushing_yards")
    /\ stats.total_yards = stats.passing_yards + stats.rushing_yards

\* the turnovers the players of a roster committed in the game: the
\* interceptions they threw and their fumbles
TurnoversCommitted(ids) ==
    RosterSum(player_objects, ids, "passing_ints")
        + RosterSum(player_objects, ids, "fumbles")

\* C28: in the summary Game.simulate_game returns, each team's passing_yards
\* and rushing_yards are the sums of those stats over its roster players for
\* the game, total_yards is their sum, and turnovers is the number of
\* interceptions thrown and fumbles of its players in the game.
C28_SummaryTeamStats ==
    [][ GameCompletes =>
          /\ SummaryAgrees(game_summary'.home_stats, rosters[teams.home.id].roster)
          /\ SummaryAgrees(game_summary'.away_stats, rosters[teams.away.id].roster)
          /\ game_summary'.home_stats.turnovers
                 = TurnoversCommitted(rosters[teams.home.id].roster)
          /\ game_summary'.away_stats.turnovers
                 = TurnoversCommitted(rosters[teams.away.id].roster) ]_vars

(***************************************************************************)
(* Properties of GameState.update_down_and_distance                        *)
(***************************************************************************)
\* C30: GameState.update_down_and_distance, called for a play that gained
\* less than the distance, adds one to the down and makes the distance the
\* old distance minus the yards gained, so that a loss of yards lengthens
\* it; called for a play that gained the distance or more, it makes the down
\* 1 and the distance min(10, 100 - field_position).  Stated of the plays of
\* Game.simulate_game after which possession stays.
C30_DownAndDistance ==
    [][ (gpc = "loop" /\ gpc' = "loop" /\ ~ChangesPossession(state, result')) =>
          IF result'.yards_gained < state.distance
          THEN /\ state'.down = state.down + 1
               /\ state'.distance = state.distance - result'.yards_gained
          ELSE /\ state'.down = 1
               /\ state'.distance = Min(10, 100 - state'.field_position) ]_vars

(***************************************************************************)
(* Properties of GameState.change_possession                               *)
(***************************************************************************)
\* C31: GameState.change_possession sets field_position to
\* max(20, 100 - old field_position), down to 1 and distance to 10, and
\* leaves both scores, the timeouts and the play history as they were.
C31_ChangePossession ==
    returned.kind = "change_possession" =>
        /\ state.field_position = Max(20, 100 - returned.before.field_position)
        /\ state.down = 1
        /\ state.distance = 10
        /\ state.home_score = returned.before.home_score
        /\ state.away_score = returned.before.away_score
        /\ state.home_timeouts = returned.before.home_timeouts
        /\ state.away_timeouts = returned.before.away_timeouts
        /\ state.play_history = returned.before.play_history

\* possession changed past the opponent's 20, on a later down, with a score,
\* a timeout used and a play in the history
C31_Witness ==
    /\ returned.kind = "change_possession"
    /\ returned.before.field_position > 80
    /\ returned.before.down = 3
    /\ returned.before.distance < 10
    /\ returned.before.home_score = 7
    /\ returned.before.home_timeouts = 1
    /\ Len(returned.before.play_history) = 1
    /\ state.field_position = 20

\* C32: in every state of a Game after a completed simulate_play,
\* state.is_redzone is true exactly when state.field_position >= 80,
\* after possession changes too.
C32_RedzoneFlag ==
    gpc \in {"loop", "done"} => (state.is_redzone <=> state.field_position >= 80)

(***************************************************************************)
(* Properties of Team.reset_for_new_game                                   *)
(***************************************************************************)
\* the step in which Game(...) resets its two teams
GameConstructs == gpc # "new" /\ gpc' = "new"

\* C33: Team.reset_for_new_game sets every per-game stat of the team and
\* every live stat of its roster players to zero, and leaves the team's
\* wins, losses and ties, its roster and depth chart, and every player's
\* historical_stats and fantasy_points_history as they were.
C33_ResetForNewGame ==
    [][ GameConstructs =>
          /\ \A t \in {teams'.home.id, teams'.away.id} :
                /\ team_stats'[t] =
                       [TeamStats EXCEPT !.wins = team_stats[t].wins,
                                         !.losses = team_stats[t].losses,
                                         !.ties = team_stats[t].ties]
                /\ rosters'[t] = rosters[t]
                /\ \A id \in rosters[t].roster :
                       player_objects'[id].stats = PlayerStats
          /\ \A id \in DOMAIN player_objects :
                /\ player_objects'[id].historical_stats
                       = player_objects[id].historical_stats
                /\ player_objects'[id].fantasy_points_history
                       = player_objects[id].fantasy_points_history ]_vars

\* the teams were reset with a game in their record, won by the away team,
\* and a play made in a game after it, which has left stats on its players
C33_Witness ==
    /\ gpc = "new"
    /\ plays_made = 4
    /\ games_completed[home_team] = 1
    /\ team_stats[away_team].wins = 1
    /\ team_stats[home_team].losses = 1
    /\ team_stats[away_team].total_yards = 0
    /\ \A id \in DOMAIN player_objects :
          /\ player_objects[id].stats = PlayerStats
          /\ Len(player_objects[id].historical_stats) = 1

(***************************************************************************)
(* Properties of the standings of simulate_season                          *)
(***************************************************************************)
\* the sum of a field over the entries of a standings list
StandingsSum(list, field) == SumOf([i \in DOMAIN list |-> list[i][field]])

\* the games an entry of the standings has a result of
GamesOf(entry) == entry.wins + entry.losses + entry.ties

\* C34: after simulate_season has completed a schedule of k games, the wins of
\* all teams add up to their losses, the wins, losses and ties of all teams
\* add up to 2k, every team's wins, losses and ties add up to the number of
\* schedule entries it appears in, and the points_for of all teams add up to
\* their points_against.
C34_StandingsSums ==
    returned.kind = "season" =>
        LET list == returned.standings
            k == Len(call.schedule)
        IN  /\ Len(returned.games) = k
            /\ StandingsSum(list, "wins") = StandingsSum(list, "losses")
            /\ SumOf([i \in DOMAIN list |-> GamesOf(list[i])]) = 2 * k
            /\ \A i \in DOMAIN list :
                   GamesOf(list[i]) =
                       Cardinality({ g \in DOMAIN call.schedule :
                                       list[i].team_id \in { call.schedule[g][1],
                                                             call.schedule[g][2] } })
            /\ StandingsSum(list, "points_for") = StandingsSum(list, "points_against")

\* a season of two games was completed: the home team beat the away team
\* and tied with it, and the third team of the list was not scheduled
C34_Witness ==
    /\ returned.kind = "season"
    /\ Len(call.schedule) = 2
    /\ Len(returned.standings) = 3
    /\ standings[home_team].wins = 1
    /\ standings[home_team].ties = 1
    /\ standings[away_team].losses = 1
    /\ standings[away_team].ties = 1
    /\ GamesOf(standings[UnregisteredTeamId]) = 0
    /\ standings[home_team].points_for = 7

(***************************************************************************)
(* Properties of the clock and the counters of the engine's play loop     *)
(***************************************************************************)
\* the seconds of game clock simulate_game starts with
GameSeconds(params) == params.quarters * params.quarter_length * 60

\* ceil(a / b), for b > 0
Ceil(a, b) == (a + b - 1) \div b

\* C35: in SimulationEngine.simulate_game every play, whatever its type and
\* outcome, takes exactly time_between_plays seconds off the game clock, and
\* the loop stops at the first play after which the clock is <= 0: with T
\* seconds of game and time_between_plays = d > 0, total_plays is
\* min(150, ceil(T / d)), which is 90 for 3600 s and 40 s; it is the number
\* of play results recorded.
C35_ClockPerPlay ==
    /\ [](plays_recorded = play_count)
    /\ []((pc = "done" /\ parameters.time_between_plays > 0) =>
             /\ play_count = Min(max_plays,
                                 Ceil(GameSeconds(parameters),
                                      parameters.time_between_plays))
             /\ (GameSeconds(parameters) = 3600 /\ parameters.time_between_plays = 40)
                    => play_count = 90)
    /\ [][ play_count' = play_count + 1 =>
             /\ game.game_clock > 0
             /\ game'.game_clock = game.game_clock - parameters.time_between_plays
         ]_vars

\* a game of 3600 s with 40 s between plays has ended after its 90th play
C35_Witness ==
    /\ pc = "done"
    /\ GameSeconds(parameters) = 3600
    /\ parameters.time_between_plays = 40
    /\ play_count = 90
    /\ plays_recorded = 90
    /\ game.game_clock = 0

\* a step of the loop of simulate_game: one play and its process_play_result
PlayStep == play_count' = play_count + 1

\* C36: in SimulationEngine.simulate_game, game.current_down is in 1..4 at
\* the start of every play and after every process_play_result: every play
\* on 4th down is a punt or a field goal that changes possession, so no play
\* takes the turnover-on-downs branch (current_down > 4).
C36_DownInRange ==
    /\ [](game.current_down \in 1..4)
    /\ [][ PlayStep =>
             /\ game.current_down = 4 =>
                   /\ play_result'.play_type \in {"punt", "field_goal"}
                   /\ play_result'.possession_change
                   /\ game'.current_possession = Opponent(game.current_possession)
                   /\ game'.current_down = 1
             /\ ( /\ ~play_result'.touchdown
                  /\ ~play_result'.possession_change
                  /\ ~GainsFirstDown(play_result'.yards_gained, game.yards_to_first) )
                => game.current_down + 1 <= 4 ]_vars

\* a punt on 4th down has given the ball to the other team, on 1st down
C36_Witness ==
    /\ play_result.play_type = "punt"
    /\ play_result.down = 4
    /\ play_result.possession_change
    /\ game.current_possession = Opponent(play_result.offense)
    /\ game.current_down = 1

\* a field goal was tried on 4th down
C36_WitnessFieldGoal ==
    /\ play_result.play_type = "field_goal"
    /\ play_result.down = 4
    /\ game.current_down = 1

\* the points a step gives the team that has the ball before it, and the
\* points it gives the other team
PointsToOffense ==
    IF game.current_possession = home_team
    THEN game'.home_score - game.home_score
    ELSE game'.away_score - game.away_score

PointsToDefense ==
    IF game.current_possession = home_team
    THEN game'.away_score - game.away_score
    ELSE game'.home_score - game.home_score

\* C37: in SimulationEngine.simulate_game neither score ever decreases; a
\* play changes the score of at most one team, by exactly 7 (a touchdown) or
\* exactly 3 (a made field goal), and that team is the one in possession at
\* the start of the play; possession changes on the plays that are
\* touchdowns or have possession_change set, and on no other play.
C37_ScoresAndPossession ==
    [][ /\ game'.home_score >= game.home_score
        /\ game'.away_score >= game.away_score
        /\ PlayStep =>
             /\ PointsToDefense = 0
             /\ PointsToOffense \in {0, 3, 7}
             /\ PointsToOffense = 7 <=> play_result'.touchdown
             /\ PointsToOffense = 3 <=> play_result'.result = "field_goal_good"
             /\ (game'.current_possession # game.current_possession)
                    <=> (play_result'.touchdown \/ play_result'.possession_change)
             /\ game'.current_possession \in
                    {game.current_possession, Opponent(game.current_possession)} ]_vars

\* after a touchdown of the home team the away team has run a play that
\* neither scored nor changed possession, and has kept the ball
C37_Witness ==
    /\ NormalPlayed
    /\ play_result.offense = away_team
    /\ game.home_score = 7
    /\ game.away_score = 0
    /\ game.current_possession = away_team

(***************************************************************************)
(* Properties of the player_stats of the engine's simulate_game            *)
(***************************************************************************)
IsReceiver(player) == player.position \in {"WR", "TE"}

\* the value of a stat of a player in player_stats
StatKept(id, key) == Get(player_stats_kept[id].stats, key)

\* the sum of a stat over the receivers of a team
ReceiversSum(team_id, key) ==
    LET receivers == SelectSeq(get_players_for_team(team_id), IsReceiver)
    IN  SumOf([i \in DOMAIN receivers |-> StatKept(receivers[i].id, key)])

\* the QB of a team that update_player_stats picks
QuarterbackOf(team_id) == Head(SelectSeq(get_players_for_team(team_id), IsQB)).id

\* C38: in the player_stats of SimulationEngine.simulate_game, for a team
\* with a QB and at least one WR or TE, after every play: the QB's
\* pass_completions are at most its pass_attempts, each receiver's
\* receptions are at most its targets, and the QB's pass_completions,
\* pass_yards and pass_tds are the sums of receptions, receiving_yards and
\* receiving_tds over the team's receivers; punts and field goals change no
\* player's stats.
C38_PassingMatchesReceiving ==
    /\ [](\A t \in {home_team, away_team} :
             LET qb == QuarterbackOf(t)
                 receivers == SelectSeq(get_players_for_team(t), IsReceiver)
             IN  /\ StatKept(qb, "pass_completions") <= StatKept(qb, "pass_attempts")
                 /\ \A i \in DOMAIN receivers :
                       StatKept(receivers[i].id, "receptions")
                           <= StatKept(receivers[i].id, "targets")
                 /\ StatKept(qb, "pass_completions") = ReceiversSum(t, "receptions")
                 /\ StatKept(qb, "pass_yards") = ReceiversSum(t, "receiving_yards")
                 /\ StatKept(qb, "pass_tds") = ReceiversSum(t, "receiving_tds"))
    /\ [][ (PlayStep /\ play_result'.play_type \in {"punt", "field_goal"}) =>
              player_stats_kept' = player_stats_kept ]_vars

\* the home team has tried a field goal after a completed pass, two
\* incomplete ones and a run
C38_Witness ==
    /\ play_result.play_type = "field_goal"
    /\ play_result.offense = home_team
    /\ StatKept("NE_QB1", "pass_completions") = 1
    /\ StatKept("NE_QB1", "pass_attempts") = 3
    /\ StatKept("NE_QB1", "pass_yards") = 40
    /\ StatKept("NE_TE1", "receptions") = 1
    /\ StatKept("NE_WR1", "targets") = 2
    /\ StatKept("NE_RB1", "rush_attempts") = 1

\* the home team has thrown a touchdown pass, its second completion, to
\* another receiver, and the away team has thrown an incomplete pass
C38_WitnessTouchdown ==
    /\ StatKept("NE_QB1", "pass_tds") = 1
    /\ StatKept("NE_QB1", "pass_completions") = 2
    /\ StatKept("NE_WR2", "receptions") = 1
    /\ StatKept("NE_TE1", "receiving_tds") = 1
    /\ StatKept("KC_QB1", "pass_attempts") = 1
    /\ StatKept("KC_QB1", "pass_completions") = 0

(***************************************************************************)
(* Properties of GameClock.time_remaining                                  *)
(***************************************************************************)
\* C39: GameClock.time_remaining() is never negative in a state reached
\* through start and advance, never increases across an advance, and is 0
\* exactly when is_game_over() is true.
C39_TimeRemaining ==
    /\ [](/\ time_remaining(clock) >= 0
          /\ time_remaining(clock) = 0 <=> is_game_over(clock))
    /\ [][time_remaining(clock') <= time_remaining(clock)]_vars

====
